---- MODULE Spec2Model ----
(***************************************************************************)
(* A model of the deepseek-agent tool-calling front end:                   *)
(*   - FileOperations      (src/src/deepseek_agent/tools/file_ops.py)      *)
(*   - ToolExecutor        (src/src/deepseek_agent/tools/tool_executor.py) *)
(*   - ToolAgentCLI        (src/src/deepseek_agent/cli_with_tools.py)      *)
(*   - DeepSeekClient      (src/src/deepseek_agent/model/client.py): chat, *)
(*                         check_model_availability, pull_model            *)
(*   - AgentCLI            (src/src/deepseek_agent/cli.py)                 *)
(*                                                                         *)
(* Strings are sequences of atoms.  An atom is one character ("/", ".",    *)
(* "~", "w", "2", ...) or a word that no operation of the program ever     *)
(* splits ("path", "to", "home", ...).  Paths follow POSIX pathlib rules   *)
(* (os.name = "posix"); the file system has no symbolic links, so          *)
(* Path.resolve() is the lexical normalisation of "..".                    *)
(***************************************************************************)
EXTENDS Integers, Sequences, FiniteSets, TLC

VARIABLES
    fs,          \* the file system: [dirs: set of paths, files: path -> content]
    lastOp,      \* what the last FileOperations / ToolExecutor call did
    opCount,     \* number of FileOperations / ToolExecutor calls made so far
    session,     \* run_interactive: "awaiting" | "turn" | "ended" | "crashed"
    history,     \* ToolAgentCLI.conversation_history
    iteration,   \* process_command's local `iteration`
    turn,        \* number of user turns started
    requests,    \* model requests issued in the current turn
    lastResp,    \* the last model response process_command handled
    dispatched,  \* the calls handed to ToolExecutor.execute for lastResp, with results
    prevLen,     \* len(conversation_history) when lastResp arrived
    prevFs,      \* the file system when lastResp arrived
    lastRequest, \* request_data of the last client.chat call
    roundTrip,   \* a write_file followed by a read_file of the same path
    gitignore_spec, \* FileOperations.gitignore_spec: the patterns loaded from .gitignore
    listing,     \* the last detailed list_directory call and what it returned
    client,      \* the DeepSeekClient of the session and its HTTP connection
    startup,     \* setup_model and run_interactive: where they are, how they ended
    pull,        \* DeepSeekClient.pull_model: the generator's progress
    agent,       \* the last process_command call: the command and what came of it
    steps,       \* process_command step by step: its awaits, one at a time
    cleaned      \* a path put through _clean_file_path, once and once more

fileVars == <<fs, lastOp, opCount>>
cliVars  == <<session, history, iteration, turn, requests, lastResp, dispatched,
              prevLen, prevFs, lastRequest>>
startVars == <<client, startup, pull, agent, steps, cleaned>>
auxVars  == <<roundTrip, gitignore_spec, listing, client, startup, pull, agent,
              steps, cleaned>>
vars     == <<fs, lastOp, opCount, session, history, iteration, turn, requests,
              lastResp, dispatched, prevLen, prevFs, lastRequest, roundTrip,
              gitignore_spec, listing, client, startup, pull, agent, steps,
                   cleaned>>

-----------------------------------------------------------------------------
(* Strings and paths                                                       *)

StartsWith(s, pre) ==
    /\ Len(pre) <= Len(s)
    /\ SubSeq(s, 1, Len(pre)) = pre

\* str.lstrip('/\\')
RECURSIVE lstrip_slashes(_)
lstrip_slashes(s) ==
    IF s # <<>> /\ Head(s) \in {"/", "\\"} THEN lstrip_slashes(Tail(s)) ELSE s

RECURSIVE SplitRec(_, _, _)
SplitRec(s, cur, acc) ==
    IF s = <<>>
    THEN (IF cur = <<>> THEN acc ELSE Append(acc, cur))
    ELSE IF Head(s) = "/"
         THEN SplitRec(Tail(s), <<>>, IF cur = <<>> THEN acc ELSE Append(acc, cur))
         ELSE SplitRec(Tail(s), Append(cur, Head(s)), acc)

\* pathlib.PurePosixPath(s).parts without the anchor: empty and "." components
\* are dropped, ".." is kept.
Parts(s) == SelectSeq(SplitRec(s, <<>>, <<>>), LAMBDA c : c # <<".">>)

\* Path.is_absolute()
is_absolute(s) == s # <<>> /\ Head(s) = "/"

\* FileOperations.workspace_root, an absolute directory: /w
WorkspaceRoot == << <<"w">> >>

\* path = Path(p); if not path.is_absolute(): path = self.workspace_root / path
PathOf(s) == IF is_absolute(s) THEN Parts(s) ELSE WorkspaceRoot \o Parts(s)

\* Path.resolve() on a file system without symbolic links
RECURSIVE ResolveRec(_, _)
ResolveRec(parts, acc) ==
    IF parts = <<>> THEN acc
    ELSE IF Head(parts) = <<".", ".">>
         THEN ResolveRec(Tail(parts),
                         IF acc = <<>> THEN acc ELSE SubSeq(acc, 1, Len(acc) - 1))
         ELSE ResolveRec(Tail(parts), Append(acc, Head(parts)))

resolve(parts) == ResolveRec(parts, <<>>)

\* str(path) of an absolute resolved path
RECURSIVE PathStr(_)
PathStr(p) ==
    IF p = <<>> THEN <<"/">>
    ELSE IF Len(p) = 1 THEN <<"/">> \o p[1]
    ELSE <<"/">> \o p[1] \o PathStr(Tail(p))

\* FileOperations._is_safe_path: a prefix test on the two path STRINGS
is_safe_path(path) ==
    StartsWith(PathStr(resolve(path)), PathStr(resolve(WorkspaceRoot)))

\* The workspace root or a descendant of it
IsPathPrefix(p, q) == Len(p) <= Len(q) /\ SubSeq(q, 1, Len(p)) = p
InWorkspace(path) == IsPathPrefix(resolve(WorkspaceRoot), resolve(path))

-----------------------------------------------------------------------------
(* The file system                                                         *)

Exists(f, p) == p \in f.dirs \/ p \in DOMAIN f.files
IsDir(f, p)  == p \in f.dirs
IsFile(f, p) == p \in DOMAIN f.files
Parent(p)    == IF p = <<>> THEN p ELSE SubSeq(p, 1, Len(p) - 1)
Ancestors(p) == {SubSeq(p, 1, k) : k \in 0..(Len(p) - 1)}
EntriesUnder(f, p) == {q \in (f.dirs \cup DOMAIN f.files) : IsPathPrefix(p, q)}
Restrict(fn, S) == [x \in S |-> fn[x]]

\* Path.mkdir(parents=True, exist_ok=True): the new fs, or "error" when the
\* path or one of its ancestors is a regular file
CanMkdirs(f, d) == \A a \in Ancestors(d) \cup {d} : ~IsFile(f, a)
Mkdirs(f, d)    == [f EXCEPT !.dirs = @ \cup Ancestors(d) \cup {d}]

Last(s) == s[Len(s)]

\* Re-root the entries under `src` at `dst` (a copy of the tree, kept or not)
Reroot(p, src, dst) == dst \o SubSeq(p, Len(src) + 1, Len(p))
TreeClash(f, src, dst) ==
    \E q \in EntriesUnder(f, src) :
        \/ IsDir(f, q) /\ IsFile(f, Reroot(q, src, dst))
        \/ IsFile(f, q) /\ IsDir(f, Reroot(q, src, dst))
WithTree(f, g, src, dst) ==
    LET moved == EntriesUnder(f, src)
        newFiles == {Reroot(q, src, dst) : q \in {x \in moved : IsFile(f, x)}}
        newDirs  == {Reroot(q, src, dst) : q \in {x \in moved : IsDir(f, x)}}
    IN [dirs  |-> g.dirs \cup newDirs,
        files |-> [p \in (DOMAIN g.files) \cup newFiles |->
                      IF p \in newFiles
                      THEN f.files[CHOOSE q \in moved : IsFile(f, q) /\ Reroot(q, src, dst) = p]
                      ELSE g.files[p]]]
Without(f, src) ==
    [dirs  |-> {d \in f.dirs : ~IsPathPrefix(src, d)},
     files |-> Restrict(f.files, {p \in DOMAIN f.files : ~IsPathPrefix(src, p)})]

-----------------------------------------------------------------------------
(* Text files.  open(path, 'w') writes '\n' as os.linesep, which is '\n'   *)
(* on POSIX; open(path, 'r') reads with universal newlines, so "\r\n" and  *)
(* a lone "\r" come back as "\n".                                          *)

NonStr == <<"#nonstr">>   \* a content value that is not a Python str

write_text(content) == content

RECURSIVE read_text(_)
read_text(bytes) ==
    IF bytes = <<>> THEN <<>>
    ELSE IF Head(bytes) = "CR"
         THEN IF Len(bytes) >= 2 /\ bytes[2] = "LF"
              THEN <<"LF">> \o read_text(Tail(Tail(bytes)))
              ELSE <<"LF">> \o read_text(Tail(bytes))
         ELSE <<Head(bytes)>> \o read_text(Tail(bytes))

-----------------------------------------------------------------------------
(* FileOperations.  Every operation returns [exc, val, fs]: the exception  *)
(* it raises ("none" when it returns), the value returned and the file     *)
(* system it leaves.                                                       *)
(*   PathEscape       ValueError("Path ... is outside workspace")          *)
(*   NotFound         FileNotFoundError("... not found")                   *)
(*   NotAFile         ValueError("Path ... is not a file")                 *)
(*   NotADirectory    ValueError("Path ... is not a directory")            *)
(*   RuntimeError     RuntimeError("Failed to ...")                        *)
(*   OSError          an OSError of the platform that the method lets out  *)
(*   RelativeTo       ValueError of Path.relative_to(workspace_root)       *)

Ret(f, v)   == [exc |-> "none", val |-> v, fs |-> f]
Raise(f, e) == [exc |-> e, val |-> <<>>, fs |-> f]
Unmodelled  == [exc |-> "unmodelled", val |-> <<>>, fs |-> [dirs |-> {}, files |-> <<>>]]

FileOperations_read_file(f, file_path) ==
    LET path == PathOf(file_path)
        p    == resolve(path)
    IN  IF ~is_safe_path(path) THEN Raise(f, "PathEscape")
        ELSE IF ~Exists(f, p) THEN Raise(f, "NotFound")
        ELSE IF ~IsFile(f, p) THEN Raise(f, "NotAFile")
        ELSE Ret(f, read_text(f.files[p]))

FileOperations_write_file(f, file_path, content) ==
    LET path == PathOf(file_path)
        p    == resolve(path)
    IN  IF ~is_safe_path(path) THEN Raise(f, "PathEscape")
        ELSE IF ~CanMkdirs(f, Parent(p)) THEN Raise(f, "OSError")
        ELSE LET g == Mkdirs(f, Parent(p))
             IN  IF IsDir(g, p) THEN Raise(g, "RuntimeError")
                 ELSE IF content = NonStr
                      THEN Raise([g EXCEPT !.files = (p :> <<>>) @@ @], "RuntimeError")
                      ELSE Ret([g EXCEPT !.files = (p :> write_text(content)) @@ @], TRUE)

Children(f, p) == {q \in EntriesUnder(f, p) : Len(q) = Len(p) + 1}

FileOperations_list_directory(f, dir_path) ==
    LET path == PathOf(dir_path)
        p    == resolve(path)
    IN  IF ~is_safe_path(path) THEN Raise(f, "PathEscape")
        ELSE IF ~Exists(f, p) THEN Raise(f, "NotFound")
        ELSE IF ~IsDir(f, p) THEN Raise(f, "NotADirectory")
        ELSE IF Children(f, p) # {} /\ ~IsPathPrefix(WorkspaceRoot, path)
             THEN Raise(f, "RelativeTo")
             ELSE Ret(f, Children(f, p))

FileOperations_create_directory(f, dir_path) ==
    LET path == PathOf(dir_path)
        p    == resolve(path)
    IN  IF ~is_safe_path(path) THEN Raise(f, "PathEscape")
        ELSE IF ~CanMkdirs(f, p) THEN Raise(f, "RuntimeError")
        ELSE Ret(Mkdirs(f, p), TRUE)

FileOperations_delete_file(f, file_path) ==
    LET path == PathOf(file_path)
        p    == resolve(path)
    IN  IF ~is_safe_path(path) THEN Raise(f, "PathEscape")
        ELSE IF ~Exists(f, p) THEN Raise(f, "NotFound")
        ELSE Ret(Without(f, p), TRUE)

FileOperations_copy_file(f, src_path, dst_path) ==
    LET src == PathOf(src_path)
        dst == PathOf(dst_path)
        s   == resolve(src)
        d   == resolve(dst)
    IN  IF ~is_safe_path(src) \/ ~is_safe_path(dst) THEN Raise(f, "PathEscape")
        ELSE IF ~Exists(f, s) THEN Raise(f, "NotFound")
        ELSE IF ~CanMkdirs(f, Parent(d)) THEN Raise(f, "RuntimeError")
        ELSE LET g == Mkdirs(f, Parent(d))
             IN  IF IsFile(g, s)
                 THEN \* shutil.copy2: into the directory when dst is one
                      LET t == IF IsDir(g, d) THEN Append(d, Last(s)) ELSE d
                      IN  IF IsDir(g, t) \/ t = s THEN Raise(g, "RuntimeError")
                          ELSE Ret([g EXCEPT !.files = (t :> g.files[s]) @@ @], TRUE)
                 ELSE \* shutil.copytree(src, dst, dirs_exist_ok=True)
                      IF IsFile(g, d) THEN Raise(g, "RuntimeError")
                      ELSE IF IsPathPrefix(s, d) \/ TreeClash(g, s, d) THEN Unmodelled
                      ELSE Ret(WithTree(g, g, s, d), TRUE)

FileOperations_move_file(f, src_path, dst_path) ==
    LET src == PathOf(src_path)
        dst == PathOf(dst_path)
        s   == resolve(src)
        d   == resolve(dst)
    IN  IF ~is_safe_path(src) \/ ~is_safe_path(dst) THEN Raise(f, "PathEscape")
        ELSE IF ~Exists(f, s) THEN Raise(f, "NotFound")
        ELSE IF ~CanMkdirs(f, Parent(d)) THEN Raise(f, "RuntimeError")
        ELSE LET g == Mkdirs(f, Parent(d))
                 \* shutil.move: into the directory when dst is one
                 t == IF IsDir(g, d) /\ d # s THEN Append(d, Last(s)) ELSE d
             IN  IF d = s THEN Ret(g, TRUE)
                 ELSE IF IsDir(g, d) /\ Exists(g, t) THEN Raise(g, "RuntimeError")
                 ELSE IF IsDir(g, s) /\ (IsPathPrefix(s, t) \/ IsFile(g, t))
                      THEN Raise(g, "RuntimeError")
                      ELSE Ret(WithTree(g, Without(g, s), s, t), TRUE)

FileOperations_find_files(f, directory) ==
    LET path == PathOf(directory)
        p    == resolve(path)
    IN  IF ~is_safe_path(path) THEN Raise(f, "PathEscape")
        ELSE IF ~Exists(f, p) \/ ~IsDir(f, p) THEN Ret(f, {})
        ELSE IF ~IsPathPrefix(WorkspaceRoot, path) THEN Ret(f, {})
        ELSE Ret(f, {q \in EntriesUnder(f, p) : IsFile(f, q) /\ q # p})

FileOperations_get_file_info(f, file_path) ==
    LET path == PathOf(file_path)
        p    == resolve(path)
    IN  IF ~is_safe_path(path) THEN Raise(f, "PathEscape")
        ELSE IF ~Exists(f, p) THEN Raise(f, "NotFound")
        ELSE IF ~IsPathPrefix(WorkspaceRoot, path) THEN Raise(f, "RelativeTo")
        ELSE Ret(f, p)

-----------------------------------------------------------------------------
(* ToolExecutor.  A JSON value is [t, s]: its type ("str", "int", "null")  *)
(* and, for a string, its text.  A tool's `arguments` is a function from   *)
(* the keys present to their values, or NotADict for a JSON value that is  *)
(* not an object (null, a list, a string).                                 *)

Str(s)     == [t |-> "str", s |-> s]
JsonNull   == [t |-> "null", s |-> <<>>]
JsonInt    == [t |-> "int", s |-> <<"5">>]      \* a non-zero number
NotADict   == [t |-> "notadict"]
IsDict(a)  == a # NotADict
Dict(keys, vals) == [t |-> "dict", keys |-> keys, vals |-> vals]

\* dict.get(key, default)
Get(a, key, default) == IF key \in a.keys THEN a.vals[key] ELSE default

\* Python truthiness of a JSON value
Truthy(v) == (v.t = "str" /\ v.s # <<>>) \/ v.t = "int"

placeholder_patterns ==
    << <<"/", "path", "/", "to", "/">>,
       <<"/", "your", "/", "path", "/">>,
       <<"/", "home", "/", "user", "/">>,
       <<"C:", "/", "path", "/", "to", "/">>,
       <<"C:", "\\", "path", "\\", "to", "\\">>,
       <<"~", "/">> >>

OsName == "posix"

\* ToolExecutor._clean_file_path
clean_file_path(file_path) ==
    LET hits == {i \in 1..Len(placeholder_patterns) :
                     StartsWith(file_path, placeholder_patterns[i])}
        first == CHOOSE i \in hits : \A j \in hits : i <= j
        s1 == IF hits = {} THEN file_path
              ELSE SubSeq(file_path, Len(placeholder_patterns[first]) + 1, Len(file_path))
        s2 == IF OsName = "nt" /\ s1 # <<>> /\ Head(s1) = "/" THEN Tail(s1) ELSE s1
    IN  lstrip_slashes(s2)

\* str(e) of the exceptions the tools catch
ExcStr(e) ==
    CASE e = "PathEscape"     -> "Path is outside workspace"
      [] e = "NotFound"       -> "File not found"
      [] e = "NotAFile"       -> "Path is not a file"
      [] e = "NotADirectory"  -> "Path is not a directory"
      [] e = "RuntimeError"   -> "Failed to write file"
      [] e = "OSError"        -> "[Errno 20] Not a directory"
      [] e = "RelativeTo"     -> "path is not in the subpath of workspace"
      [] e = "AttributeError" -> "object has no attribute"
      [] e = "TypeError"      -> "expected str, bytes or os.PathLike object"
      [] e = "LaunchError"    -> "[Errno 2] No such file or directory"
      [] OTHER                -> e

\* What a tool method's body does: [exc, ret, fs]; ret is the result mapping
\* [success, hasError, error, content].
Success(content) == [success |-> TRUE, hasError |-> FALSE, error |-> "", content |-> content]
Failure(msg)     == [success |-> FALSE, hasError |-> TRUE, error |-> msg, content |-> <<>>]
NoResult         == [success |-> FALSE, hasError |-> FALSE, error |-> "", content |-> <<>>]
Body(f, ret)     == [exc |-> "none", ret |-> ret, fs |-> f, spawned |-> FALSE, alive |-> {}]
BodyRaise(f, e)  == [exc |-> e, ret |-> NoResult, fs |-> f, spawned |-> FALSE, alive |-> {}]
Spawned(body)    == [body EXCEPT !.spawned = TRUE]
\* the processes of the command that are running when the method returns
Alive(body, processes) == [body EXCEPT !.alive = processes]

\* A faulty variant of the tools' `except Exception` clause: the clause is missing and
\* the exception reaches the caller of execute.
Uncaught(body) ==
    [raised |-> body.exc # "none", ret |-> body.ret, fs |-> body.fs,
     spawned |-> body.spawned, alive |-> body.alive]

\* A faulty variant of the tools' `except Exception` clause: the result it builds has
\* no "error" entry.
CaughtWithoutError(body) ==
    [raised |-> FALSE, ret |-> body.ret, fs |-> body.fs, spawned |-> body.spawned,
     alive |-> body.alive]

\* try: ... except Exception as e: return {"success": False, "error": str(e)}
TryExcept(body) ==
    IF body.exc = "none"
    THEN [raised |-> FALSE, ret |-> body.ret, fs |-> body.fs, spawned |-> body.spawned,
          alive |-> body.alive]
    ELSE [raised |-> FALSE, ret |-> Failure(ExcStr(body.exc)), fs |-> body.fs,
          spawned |-> body.spawned, alive |-> body.alive]

FromFileOps(r, ret) == IF r.exc = "none" THEN Body(r.fs, ret) ELSE BodyRaise(r.fs, r.exc)

ToolExecutor_write_file(f, args) ==
    TryExcept(
        IF ~IsDict(args) THEN BodyRaise(f, "AttributeError")
        ELSE LET file_path == Get(args, "file_path", Str(<<>>))
                 content   == Get(args, "content", Str(<<>>))
             IN  IF ~Truthy(file_path) THEN Body(f, Failure("file_path is required"))
                 ELSE IF file_path.t # "str" THEN BodyRaise(f, "AttributeError")
                 ELSE FromFileOps(
                          FileOperations_write_file(f, clean_file_path(file_path.s),
                              IF content.t = "str" THEN content.s ELSE NonStr),
                          Success(<<>>)))

ToolExecutor_read_file(f, args) ==
    TryExcept(
        IF ~IsDict(args) THEN BodyRaise(f, "AttributeError")
        ELSE LET file_path == Get(args, "file_path", Str(<<>>))
             IN  IF ~Truthy(file_path) THEN Body(f, Failure("file_path is required"))
                 ELSE IF file_path.t # "str" THEN BodyRaise(f, "AttributeError")
                 ELSE LET r == FileOperations_read_file(f, clean_file_path(file_path.s))
                      IN  FromFileOps(r, Success(r.val)))

ToolExecutor_list_directory(f, args) ==
    TryExcept(
        IF ~IsDict(args) THEN BodyRaise(f, "AttributeError")
        ELSE LET directory == Get(args, "directory", Str(<<".">>))
             IN  IF directory.t # "str" THEN BodyRaise(f, "TypeError")
                 ELSE FromFileOps(FileOperations_list_directory(f, directory.s),
                                  Success(<<>>)))

ToolExecutor_find_files(f, args) ==
    TryExcept(
        IF ~IsDict(args) THEN BodyRaise(f, "AttributeError")
        ELSE LET pattern == Get(args, "pattern", Str(<<>>))
             IN  IF ~Truthy(pattern) THEN Body(f, Failure("pattern is required"))
                 \* file_ops.find_files swallows what rglob(pattern) raises
                 ELSE FromFileOps(FileOperations_find_files(f, <<".">>), Success(<<>>)))

\* What the shell does with a command: it exits (with a zero or a non-zero
\* code), it outlives the timeout, or the process cannot be started.  When the
\* time is up either the shell is the only process of the command (it has
\* replaced itself by the command), or it has a child that runs the command.
ProcessOutcomes == {"exit0", "exit1", "timeout", "timeout_child", "launch_error"}

\* the processes of a command that is running
Processes(outcome) ==
    IF outcome = "timeout_child" THEN {"shell", "child"} ELSE {"shell"}

\* process.kill(): SIGKILL to the shell, and to no other process
process_kill(processes) == processes \ {"shell"}

\* What a command that exits leaves behind: the bytes it wrote to its standard
\* output and to its standard error, and its exit code.  "bad" is a byte that
\* is not valid UTF-8.
ProcessOutput(outcome) ==
    IF outcome = "exit1"
    THEN [stdout |-> <<"o", "bad">>, stderr |-> <<"e">>, returncode |-> 1]
    ELSE [stdout |-> <<"o">>, stderr |-> <<>>, returncode |-> 0]

\* bytes.decode(errors="replace")
decode(bytes) ==
    [i \in 1..Len(bytes) |-> IF bytes[i] = "bad" THEN "U+FFFD" ELSE bytes[i]]

\* A faulty variant of the result of a finished command: a non-zero exit code
\* is reported as a failure.
CommandResult_failing_on_nonzero(process) ==
    [success |-> process.returncode = 0, hasError |-> FALSE, error |-> "",
     content |-> <<>>, stdout |-> decode(process.stdout),
     stderr |-> decode(process.stderr), return_code |-> process.returncode]

\* {"success": True, "stdout": ..., "stderr": ..., "return_code": ..., "command": ...}
CommandResult(process) ==
    [success |-> TRUE, hasError |-> FALSE, error |-> "", content |-> <<>>,
     stdout |-> decode(process.stdout), stderr |-> decode(process.stderr),
     return_code |-> process.returncode]

ToolExecutor_run_command(f, args, outcome) ==
    TryExcept(
        IF ~IsDict(args) THEN BodyRaise(f, "AttributeError")
        ELSE LET command == Get(args, "command", Str(<<>>))
             IN  IF ~Truthy(command) THEN Body(f, Failure("command is required"))
                 ELSE IF outcome = "launch_error" \/ command.t # "str"
                      THEN BodyRaise(f, IF command.t # "str" THEN "TypeError" ELSE "LaunchError")
                 ELSE IF outcome \in {"timeout", "timeout_child"}
                      THEN Alive(Spawned(Body(f, Failure("Command timed out"))),
                                 process_kill(Processes(outcome)))
                      ELSE Spawned(Body(f, CommandResult(ProcessOutput(outcome)))))

RegisteredTools == {"write_file", "read_file", "list_directory", "run_command", "find_files"}

\* ToolExecutor.execute
execute(f, tool_name, arguments, outcome) ==
    IF tool_name = "write_file" THEN ToolExecutor_write_file(f, arguments)
    ELSE IF tool_name = "read_file" THEN ToolExecutor_read_file(f, arguments)
    ELSE IF tool_name = "list_directory" THEN ToolExecutor_list_directory(f, arguments)
    ELSE IF tool_name = "run_command" THEN ToolExecutor_run_command(f, arguments, outcome)
    ELSE IF tool_name = "find_files" THEN ToolExecutor_find_files(f, arguments)
    ELSE [raised |-> FALSE, ret |-> Failure("Unknown tool"), fs |-> f, spawned |-> FALSE,
          alive |-> {}]

-----------------------------------------------------------------------------
(* The file systems a run starts from, and the arguments it draws          *)

MaxOps == 1     \* FileOperations / ToolExecutor calls in one behaviour

RootDir == <<>>
W  == <<"w">>
W2 == <<"w", "2">>
A  == <<"a">>

\* an empty workspace /w
FsEmpty == [dirs |-> {RootDir, <<W>>}, files |-> <<>>]
\* a workspace holding one file, /w/a
FsFile  == [dirs |-> {RootDir, <<W>>}, files |-> (<<W, A>> :> <<"x">>)]
\* a workspace holding a directory /w/a with a file in it, beside a sibling
\* directory /w2 and a file /a outside the workspace
FsTree  == [dirs  |-> {RootDir, <<W>>, <<W, A>>, <<W2>>},
            files |-> (<<W, A, A>> :> <<"x">>) @@ (<<W2, A>> :> <<"y">>)
                      @@ (<<A>> :> <<"y">>)]
\* a workspace holding a file /w/a and a directory /w/w2, beside an empty
\* sibling directory /w2
FsSibling == [dirs  |-> {RootDir, <<W>>, <<W, W2>>, <<W2>>},
              files |-> (<<W, A>> :> <<"CR">>)]
InitFileSystems == {FsEmpty, FsFile, FsTree, FsSibling}

\* Path arguments.  ".." appears only in leading position, where the lexical
\* resolve() and the kernel's path walk agree.
PathInputs ==
    { <<>>,                                    \* ""  (the workspace root)
      <<"a">>,                                 \* a
      <<"a", "/", "a">>,                       \* a/a
      <<".", ".">>,                            \* ..
      <<".", ".", "/", "a">>,                  \* ../a
      <<".", ".", "/", "w", "2">>,             \* ../w2
      <<".", ".", "/", "w", "2", "/", "a">>,   \* ../w2/a
      <<".", ".", "/", "w", "/", "a">>,        \* ../w/a
      <<"/", "w">>,                            \* /w
      <<"/", "w", "/", "a">>,                  \* /w/a
      <<"/", "w", "2">>,                       \* /w2
      <<"/", "w", "2", "/", "a">>,             \* /w2/a
      <<"/", "a">>,                            \* /a
      <<"/">> }                                \* /

Contents == {<<>>, <<"x">>, <<"CR">>}

\* file_path values a model may send: the above, and placeholder paths
ToolPaths ==
    PathInputs \cup
    { <<"~", "/", "a">>,                                    \* ~/a
      <<"/", "path", "/", "to", "/", "a">>,                 \* /path/to/a
      <<"~", "/", ".", ".", "/", "w", "2", "/", "a">>,      \* ~/../w2/a
      <<"~", "/", "~", "/", "a">> }                         \* ~/~/a

ToolNames == RegisteredTools \cup {"delete_file"}

ToolArguments ==
    {NotADict, Dict({}, <<>>)}
    \cup {Dict({"file_path"}, [k \in {"file_path"} |-> v]) :
              v \in {JsonNull, JsonInt} \cup {Str(p) : p \in ToolPaths}}
    \cup {Dict({"file_path", "content"},
               [k \in {"file_path", "content"} |-> IF k = "file_path" THEN Str(p) ELSE c]) :
              p \in ToolPaths, c \in {Str(<<"x">>), JsonInt}}
    \cup {Dict({"content"}, [k \in {"content"} |-> Str(<<"x">>)])}
    \cup {Dict({"command"}, [k \in {"command"} |-> v]) : v \in {Str(<<"c">>), JsonInt}}
    \cup {Dict({"pattern"}, [k \in {"pattern"} |-> v]) : v \in {Str(<<"*">>), JsonInt}}
    \cup {Dict({"directory"}, [k \in {"directory"} |-> v]) :
              v \in {JsonNull} \cup {Str(p) : p \in PathInputs}}

Outside(f) == [dirs  |-> {d \in f.dirs : ~InWorkspace(d)},
               files |-> Restrict(f.files, {p \in DOMAIN f.files : ~InWorkspace(p)})]

NoOp == [layer |-> "none", op |-> "none", exc |-> "none", raised |-> FALSE,
         success |-> FALSE, hasError |-> FALSE, error |-> "", escapes |-> FALSE,
         changed |-> FALSE, outside |-> FALSE, spawned |-> FALSE, alive |-> {},
         outcome |-> "none", ret |-> NoResult, kinds |-> {}, omitted |-> {}]

\* What a path argument names in the file system f
Kind(f, file_path) ==
    LET p == resolve(PathOf(file_path))
    IN  IF ~Exists(f, p) THEN "missing" ELSE IF IsFile(f, p) THEN "file" ELSE "dir"

\* tool_definitions.py: the parameters a tool's definition lists as required
required(tool_name) ==
    CASE tool_name = "write_file"  -> {"file_path", "content"}
      [] tool_name = "read_file"   -> {"file_path"}
      [] tool_name = "run_command" -> {"command"}
      [] tool_name = "find_files"  -> {"pattern"}
      [] OTHER                     -> {}

\* The record of a FileOperations call on the path arguments `paths`
FileOpRecord(op, paths, r) ==
    [layer |-> "file_ops", op |-> op, exc |-> r.exc, raised |-> r.exc # "none",
     success |-> r.exc = "none", hasError |-> FALSE, error |-> "",
     escapes |-> \E p \in paths : ~InWorkspace(PathOf(p)),
     changed |-> r.fs # fs,
     outside |-> Outside(r.fs) # Outside(fs),
     spawned |-> FALSE, alive |-> {}, outcome |-> "none", ret |-> NoResult,
     kinds |-> {Kind(fs, p) : p \in paths}, omitted |-> {}]

FileOp(op, paths, r) ==
    /\ opCount < MaxOps
    /\ r.exc # "unmodelled"
    /\ fs' = r.fs
    /\ lastOp' = FileOpRecord(op, paths, r)
    /\ opCount' = opCount + 1
    /\ UNCHANGED <<cliVars, auxVars>>

FileRead == \E p \in PathInputs :
    FileOp("read_file", {p}, FileOperations_read_file(fs, p))
FileWrite == \E p \in PathInputs, c \in Contents :
    FileOp("write_file", {p}, FileOperations_write_file(fs, p, c))
FileList == \E p \in PathInputs :
    FileOp("list_directory", {p}, FileOperations_list_directory(fs, p))
FileCreateDirectory == \E p \in PathInputs :
    FileOp("create_directory", {p}, FileOperations_create_directory(fs, p))
FileDelete == \E p \in PathInputs :
    FileOp("delete_file", {p}, FileOperations_delete_file(fs, p))
FileCopy == \E p \in PathInputs, q \in PathInputs :
    FileOp("copy_file", {p, q}, FileOperations_copy_file(fs, p, q))
FileMove == \E p \in PathInputs, q \in PathInputs :
    FileOp("move_file", {p, q}, FileOperations_move_file(fs, p, q))
FileFind == \E p \in PathInputs :
    FileOp("find_files", {p}, FileOperations_find_files(fs, p))
FileGetInfo == \E p \in PathInputs :
    FileOp("get_file_info", {p}, FileOperations_get_file_info(fs, p))

\* The location a write_file / read_file tool call hands to FileOperations
\* (none when the call returns before it gets there)
ToolTarget(tool_name, arguments) ==
    IF /\ tool_name \in {"write_file", "read_file"}
       /\ IsDict(arguments)
       /\ Get(arguments, "file_path", Str(<<>>)).t = "str"
       /\ Get(arguments, "file_path", Str(<<>>)).s # <<>>
    THEN {PathOf(clean_file_path(Get(arguments, "file_path", Str(<<>>)).s))}
    ELSE {}

ToolExecute == \E tool_name \in ToolNames, arguments \in ToolArguments,
                  outcome \in ProcessOutcomes :
    LET r == execute(fs, tool_name, arguments, outcome)
        target == ToolTarget(tool_name, arguments)
    IN  /\ opCount < MaxOps
        /\ outcome # "exit0" => tool_name = "run_command"
        /\ fs' = r.fs
        /\ lastOp' = [layer |-> "tool", op |-> tool_name, exc |-> "none",
                      raised |-> r.raised, success |-> r.ret.success,
                      hasError |-> r.ret.hasError, error |-> r.ret.error,
                      escapes |-> \E t \in target : ~InWorkspace(t),
                      changed |-> r.fs # fs,
                      outside |-> \/ Outside(r.fs) # Outside(fs)
                                  \/ \E t \in target :
                                        ~InWorkspace(t) /\ r.ret.success,
                      spawned |-> r.spawned, alive |-> r.alive,
                      outcome |-> IF tool_name = "run_command" THEN outcome ELSE "none",
                      ret |-> r.ret, kinds |-> {},
                      omitted |-> IF IsDict(arguments)
                                  THEN required(tool_name) \ arguments.keys ELSE {}]
        /\ opCount' = opCount + 1
        /\ UNCHANGED <<cliVars, auxVars>>

\* No path cleaned yet
NoClean == [stage |-> "none", file_path |-> <<>>, once |-> <<>>, twice |-> <<>>]

\* process_command not entered: no request in flight, no tool running
NoSteps == [phase |-> "awaiting", iteration |-> 0, tool_calls |-> <<>>,
            tool_responses |-> <<>>, running |-> {}, in_flight |-> 0]

\* No command processed yet
NoCommand == [cli |-> "ToolAgentCLI", command |-> <<>>, returned |-> "none",
              listings |-> 0, before |-> 0, sent |-> 0]

\* A session whose model is set up: the client exists, its connection is open.
\* What becomes of the connection when the session ends is told in SpecStartup.
NoPull == [state |-> "idle", lines |-> <<>>, yielded |-> <<>>, last_payload |-> NotADict]
StartIdle ==
    /\ client = [created |-> TRUE, closes |-> 0, model |-> <<"d">>]
    /\ startup = [setup |-> "returned", exit_code |-> 0, first |-> "yes", second |-> "none",
                  loop |-> "prompting", prompts |-> 0,
                  lastCheck |-> [called |-> FALSE]]
    /\ pull = NoPull
    /\ agent = NoCommand
    /\ steps = NoSteps
    /\ cleaned = NoClean

\* No request sent yet
NoRequest == [messages |-> <<>>, stream |-> FALSE, tools |-> {}]

\* No write_file / read_file pair under way
NoRoundTrip == [stage |-> "none", path |-> <<>>, content |-> <<>>, result |-> <<>>]

\* No detailed list_directory call made
NoListing == [called |-> FALSE, dir_path |-> <<>>, include_hidden |-> FALSE,
              exc |-> "none", entries |-> <<>>]

\* No response handled yet
NoResponse == [kind |-> "none", content |-> <<>>, tool_calls |-> <<>>, done |-> FALSE]

\* ToolAgentCLI before the first command
CliIdle ==
    /\ session = "awaiting" /\ history = <<>> /\ iteration = 0 /\ turn = 0
    /\ requests = 0 /\ lastResp = NoResponse /\ dispatched = <<>>
    /\ prevLen = 0 /\ prevFs = fs
    /\ lastRequest = NoRequest
    /\ roundTrip = NoRoundTrip
    /\ gitignore_spec = {}
    /\ listing = NoListing
    /\ StartIdle

InitFiles ==
    /\ fs \in InitFileSystems
    /\ lastOp = NoOp
    /\ opCount = 0
    /\ CliIdle

NextFiles ==
    \/ FileRead \/ FileWrite \/ FileList \/ FileCreateDirectory \/ FileDelete
    \/ FileCopy \/ FileMove \/ FileFind \/ FileGetInfo
    \/ ToolExecute

SpecFiles == InitFiles /\ [][NextFiles]_vars

-----------------------------------------------------------------------------
(* Claims about FileOperations and ToolExecutor, checked under SpecFiles   *)

\* C2: every File Access operation given a path argument that resolves to
\* neither the workspace root nor a descendant of it fails with the
\* containment error instead of executing.
C2_OutsidePathsFail ==
    (lastOp.layer = "file_ops" /\ lastOp.escapes) => lastOp.exc = "PathEscape"

\* C3: a File Access operation with a path argument outside the workspace
\* performs no file system mutation (no directory or file is created, nothing
\* is removed, copied or moved).
C3_OutsidePathsMutateNothing ==
    (lastOp.layer = "file_ops" /\ lastOp.escapes) => ~lastOp.changed

\* C8: ToolExecutor.execute never raises to its caller, whatever the tool name
\* and the arguments; a name that is not registered yields success = false
\* with an error, changes no file and starts no process.
C8_ExecuteNeverRaises ==
    lastOp.layer = "tool" =>
        /\ ~lastOp.raised
        /\ lastOp.success \in BOOLEAN
        /\ lastOp.op \notin RegisteredTools =>
               /\ ~lastOp.success /\ lastOp.hasError /\ lastOp.error # ""
               /\ ~lastOp.changed /\ ~lastOp.spawned

\* C8's case: a tool method's body raised (arguments of the wrong type) and
\* execute returned the error as a result.
C8_Witness ==
    /\ lastOp.layer = "tool"
    /\ lastOp.op \in RegisteredTools
    /\ lastOp.error = ExcStr("AttributeError")

\* C9: every result of ToolExecutor.execute is a success (success = true, no
\* "error" entry) or an error (success = false, a non-empty "error" entry).
C9_SuccessXorError ==
    lastOp.layer = "tool" =>
        \/ lastOp.success /\ ~lastOp.hasError
        \/ ~lastOp.success /\ lastOp.hasError /\ lastOp.error # ""

\* C9's case: a file operation failed under a tool call and came back as an
\* error result.
C9_Witness ==
    /\ lastOp.layer = "tool"
    /\ lastOp.op = "read_file"
    /\ ~lastOp.success
    /\ lastOp.error = ExcStr("NotFound")

\* C10: a write_file or read_file tool call reads or writes only locations at
\* or beneath the workspace root, whatever file_path the model supplies.
C10_ToolCallsStayInWorkspace ==
    (lastOp.layer = "tool" /\ lastOp.op \in {"write_file", "read_file"})
        => ~lastOp.outside

-----------------------------------------------------------------------------
(* Model responses.  The text of a message is a sequence of tokens [k, name]:*)
(*   "["  "]"  ","  " "    these characters                                *)
(*   "c"                   any other character of a string value           *)
(*   "w"                   a word of prose                                 *)
(*   "open"                {"name": "<name>", "arguments": {"<key>": "     *)
(*                         up to and including the quote opening the value *)
(*   "close"               "}}  from the quote closing the value           *)
(* A "[" or "]" inside a string value is the same character, and the same  *)
(* token, as the bracket of an array.                                      *)

Tok(k)     == [k |-> k, name |-> ""]
Open(name) == [k |-> "open", name |-> name]

\* The one argument each tool's embedded call carries
ArgKey(name) ==
    CASE name = "run_command"    -> "command"
      [] name = "list_directory" -> "directory"
      [] name = "find_files"     -> "pattern"
      [] OTHER                   -> "file_path"

Call(name, value) ==
    [name |-> name,
     arguments |-> Dict({ArgKey(name)}, [k \in {ArgKey(name)} |-> Str(value)])]

\* The JSON text of one call, of a list of calls, and of an array of them
RenderItem(call) ==
    <<Open(call.name)>>
    \o [i \in 1..Len(call.arguments.vals[ArgKey(call.name)].s) |->
            Tok(call.arguments.vals[ArgKey(call.name)].s[i])]
    \o <<Tok("close")>>

RECURSIVE RenderItems(_)
RenderItems(calls) ==
    IF Len(calls) = 1 THEN RenderItem(calls[1])
    ELSE RenderItem(calls[1]) \o <<Tok(",")>> \o RenderItems(Tail(calls))

RenderArray(calls) == <<Tok("[")>> \o RenderItems(calls) \o <<Tok("]")>>

\* json.loads of a fragment that starts with [{"name": the list of its
\* objects, or a JSONDecodeError
RECURSIVE ParseItems(_, _)
ParseItems(toks, acc) ==
    IF toks = <<>> \/ toks[1].k # "open" THEN [ok |-> FALSE, items |-> <<>>]
    ELSE LET closes == {i \in 2..Len(toks) : toks[i].k = "close"}
         IN  IF closes = {} THEN [ok |-> FALSE, items |-> <<>>]
             ELSE LET e == CHOOSE i \in closes : \A j \in closes : i <= j
                      value == [i \in 1..(e - 2) |-> toks[i + 1].k]
                      item  == Call(toks[1].name, value)
                  IN  IF \E i \in 2..(e - 1) : toks[i].k = "open"
                      THEN [ok |-> FALSE, items |-> <<>>]
                      ELSE IF e = Len(toks)
                      THEN [ok |-> TRUE, items |-> Append(acc, item)]
                      ELSE IF toks[e + 1].k = "," /\ e + 1 < Len(toks)
                      THEN ParseItems(SubSeq(toks, e + 2, Len(toks)), Append(acc, item))
                      ELSE [ok |-> FALSE, items |-> <<>>]

json_loads(frag) ==
    IF Len(frag) >= 2 /\ frag[1].k = "[" /\ frag[Len(frag)].k = "]"
    THEN ParseItems(SubSeq(frag, 2, Len(frag) - 1), <<>>)
    ELSE [ok |-> FALSE, items |-> <<>>]

\* str.strip()
RECURSIVE lstrip(_)
lstrip(s) == IF s # <<>> /\ Head(s).k = " " THEN lstrip(Tail(s)) ELSE s
RECURSIVE rstrip(_)
rstrip(s) == IF s # <<>> /\ s[Len(s)].k = " " THEN rstrip(SubSeq(s, 1, Len(s) - 1)) ELSE s
strip(s) == rstrip(lstrip(s))

-----------------------------------------------------------------------------
(* ToolAgentCLI.process_command: detection of tool calls written as text   *)

\* for i in range(start_pos, len(content)): the index after the bracket that
\* brings bracket_count back to 0, or start_pos when none does
RECURSIVE MatchEnd(_, _, _, _)
MatchEnd(content, start_pos, i, bracket_count) ==
    IF i > Len(content) THEN start_pos
    ELSE IF content[i].k = "[" THEN MatchEnd(content, start_pos, i + 1, bracket_count + 1)
    ELSE IF content[i].k = "]"
         THEN IF bracket_count - 1 = 0 THEN i + 1
              ELSE MatchEnd(content, start_pos, i + 1, bracket_count - 1)
    ELSE MatchEnd(content, start_pos, i + 1, bracket_count)

\* A faulty variant of the valid_tools test: every name is accepted.
valid_tool_any(tool_name) == TRUE

\* tool_name in valid_tools
valid_tool(tool_name) == tool_name \in RegisteredTools

\* The calls one start position contributes to all_tool_calls
FragmentCalls(content, start_pos) ==
    LET end_pos == MatchEnd(content, start_pos, start_pos, 0)
    IN  IF end_pos > start_pos
        THEN LET tool_data == json_loads(SubSeq(content, start_pos, end_pos - 1))
             IN  IF tool_data.ok
                 THEN SelectSeq(tool_data.items, LAMBDA item : valid_tool(item.name))
                 ELSE <<>>
        ELSE <<>>

RECURSIVE CollectCalls(_, _)
CollectCalls(content, start_pos) ==
    IF start_pos >= Len(content) THEN <<>>
    ELSE (IF content[start_pos].k = "[" /\ content[start_pos + 1].k = "open"
          THEN FragmentCalls(content, start_pos) ELSE <<>>)
         \o CollectCalls(content, start_pos + 1)

\* all_tool_calls for message.content.strip()
embedded_tool_calls(content) ==
    IF \E i \in 1..Len(content) : content[i].k = "open"
    THEN CollectCalls(content, 1)
    ELSE <<>>

-----------------------------------------------------------------------------
(* ToolAgentCLI.process_command and run_interactive                        *)

max_iterations == 5
MaxTurns == 2      \* user turns in one behaviour

NoContent == [type |-> "none", tool |-> "", result |-> NoResult, text |-> <<>>]

\* Message(role="user", content=command)
UserMessage(command) ==
    [role |-> "user", content |-> [NoContent EXCEPT !.type = "command", !.text = command]]
\* Message(role="user", content=f"Tool {tool_name} returned: {json.dumps(result)}")
ToolMessage(tool_name, result) ==
    [role |-> "user",
     content |-> [NoContent EXCEPT !.type = "tool_result", !.tool = tool_name,
                                   !.result = result]]
\* A faulty variant of the assistant message: it is filed under the user's role.
AssistantMessage_as_user(text) ==
    [role |-> "user", content |-> [NoContent EXCEPT !.type = "text", !.text = text]]

\* Message(role="assistant", content=message.content)
AssistantMessage(text) ==
    [role |-> "assistant", content |-> [NoContent EXCEPT !.type = "text", !.text = text]]

\* A faulty variant of the appends: the history is cut to its last 10 messages.
extend_truncating(conversation_history, messages) ==
    LET h == conversation_history \o messages
    IN  IF Len(h) <= 10 THEN h ELSE SubSeq(h, Len(h) - 9, Len(h))

\* for m in messages: self.conversation_history.append(m)
extend(conversation_history, messages) == conversation_history \o messages

HistoryWindow == 10

\* A faulty variant of the window: the first 10 messages instead of the last.
first_messages(conversation_history) ==
    IF Len(conversation_history) <= HistoryWindow THEN conversation_history
    ELSE SubSeq(conversation_history, 1, HistoryWindow)

\* self.conversation_history[-10:]
last_messages(conversation_history) ==
    IF Len(conversation_history) <= HistoryWindow THEN conversation_history
    ELSE SubSeq(conversation_history, Len(conversation_history) - HistoryWindow + 1,
                Len(conversation_history))

\* self.system_prompt (never empty) and self.tools of a session whose model is
\* not a mistral model
SystemPrompt == <<[k |-> "w", name |-> "You"], [k |-> " ", name |-> ""],
                  [k |-> "w", name |-> "are"]>>
\* self.tools: a model whose name holds "mistral", in any case, is sent the
\* definitions of write_file and run_command only
SessionTools ==
    IF \E i \in 1..Len(client.model) : client.model[i] \in {"mistral", "Mistral"}
    THEN {"write_file", "run_command"}
    ELSE RegisteredTools
SystemMessage(system_prompt) ==
    [role |-> "system",
     content |-> [NoContent EXCEPT !.type = "system_prompt", !.text = system_prompt]]

\* DeepSeekClient.chat: request_data
chat_request(messages, system_prompt, tools, stream) ==
    [messages |-> (IF system_prompt # <<>> THEN <<SystemMessage(system_prompt)>> ELSE <<>>)
                  \o [i \in 1..Len(messages) |->
                         [role |-> messages[i].role, content |-> messages[i].content]],
     stream   |-> stream,
     tools    |-> tools]

\* A faulty variant of process_tool_calls: each response is put in front of the list.
RECURSIVE process_tool_calls_prepend(_, _, _)
process_tool_calls_prepend(f, tool_calls, outcome) ==
    IF tool_calls = <<>> THEN [fs |-> f, responses |-> <<>>, log |-> <<>>, raised |-> FALSE]
    ELSE LET tool_call == Head(tool_calls)
             r    == execute(f, tool_call.name, tool_call.arguments, outcome)
             rest == process_tool_calls_prepend(r.fs, Tail(tool_calls), outcome)
         IN  [fs        |-> rest.fs,
              responses |-> Append(rest.responses, ToolMessage(tool_call.name, r.ret)),
              log       |-> <<[call |-> tool_call, result |-> r.ret]>> \o rest.log,
              raised    |-> FALSE]

\* ToolAgentCLI.process_tool_calls: the calls are executed one after the other;
\* `log` is what execute was called with and what it returned
RECURSIVE process_tool_calls(_, _, _)
process_tool_calls(f, tool_calls, outcome) ==
    IF tool_calls = <<>> THEN [fs |-> f, responses |-> <<>>, log |-> <<>>, raised |-> FALSE]
    ELSE LET tool_call == Head(tool_calls)
             r == execute(f, tool_call.name, tool_call.arguments, outcome)
         IN  IF r.raised
             THEN [fs |-> r.fs, responses |-> <<>>,
                   log |-> <<[call |-> tool_call, result |-> r.ret]>>, raised |-> TRUE]
             ELSE LET rest == process_tool_calls(r.fs, Tail(tool_calls), outcome)
                  IN  [fs        |-> rest.fs,
                       responses |-> <<ToolMessage(tool_call.name, r.ret)>> \o rest.responses,
                       log       |-> <<[call |-> tool_call, result |-> r.ret]>> \o rest.log,
                       raised    |-> rest.raised]

\* A faulty variant of the loop condition: one iteration too many.
loop_continues_inclusive(i) == i <= max_iterations

\* while iteration < max_iterations
loop_continues(i) == i < max_iterations

\* Commands typed at the prompt, as words
Lower(word) ==
    CASE word = "Quit" -> "quit"
      [] word = "HELP" -> "help"
      [] word = "Files" -> "files"
      [] OTHER         -> word
WordTok(w) == [k |-> IF w = " " THEN " " ELSE "w", name |-> w]
CommandText(words) == [i \in 1..Len(words) |-> WordTok(words[i])]

Commands ==
    { <<>>, <<" ">>, <<"quit">>, <<" ", "Quit", " ">>, <<"exit">>, <<"q">>,
      <<"help">>, <<"?">>, <<"HELP">>, <<"task">>, <<"quit", " ", "it">> }

\* A faulty variant of the command's normal form: the command is not trimmed.
command_lower_untrimmed(words) ==
    [i \in 1..Len(words) |-> Lower(words[i])]

\* command.strip().lower()
command_lower(words) ==
    LET stripped == strip(CommandText(words))
    IN  [i \in 1..Len(stripped) |-> Lower(stripped[i].name)]

\* run_interactive: the prompt returns a command that process_command handles
\* without a model request
UserCommandLocal == \E words \in Commands :
    /\ session = "awaiting"
    /\ command_lower(words) \in {<<>>, <<"quit">>, <<"exit">>, <<"q">>, <<"help">>, <<"?">>}
    /\ session' = IF command_lower(words) \in {<<"quit">>, <<"exit">>, <<"q">>}
                  THEN "ended" ELSE "awaiting"
    /\ UNCHANGED <<history, iteration, turn, requests, lastResp, dispatched, prevLen,
                   prevFs, lastRequest, auxVars>>
    /\ UNCHANGED fileVars

\* run_interactive: the prompt returns a command for the model; process_command
\* appends it to the history and enters its loop
UserCommand == \E words \in Commands :
    /\ session = "awaiting"
    /\ turn < MaxTurns
    /\ command_lower(words) \notin {<<>>, <<"quit">>, <<"exit">>, <<"q">>, <<"help">>, <<"?">>}
    /\ history' = extend(history, <<UserMessage(strip(CommandText(words)))>>)
    /\ iteration' = 0
    /\ requests' = 0
    /\ turn' = turn + 1
    /\ lastResp' = NoResponse
    /\ dispatched' = <<>>
    /\ prevLen' = Len(history) + 1
    /\ prevFs' = fs
    /\ UNCHANGED <<lastRequest, auxVars>>
    /\ session' = "turn"
    /\ UNCHANGED fileVars

\* What every pass of the loop does first: iteration += 1 and the request
Request(resp) ==
    /\ session = "turn"
    /\ loop_continues(iteration)
    /\ iteration' = iteration + 1
    /\ requests' = requests + 1
    /\ lastResp' = resp
    /\ prevLen' = Len(history)
    /\ prevFs' = fs
    /\ lastRequest' = chat_request(last_messages(history), SystemPrompt, SessionTools, FALSE)
    /\ UNCHANGED <<turn, lastOp, opCount, auxVars>>

\* After `continue`: the loop condition is tested again
AfterContinue == IF loop_continues(iteration + 1) THEN "turn" ELSE "awaiting"

\* client.chat raises (the server is unreachable, or answers with a status
\* other than 200): nothing in process_command or run_interactive catches it
ChatRaises(resp) ==
    /\ resp.kind = "error"
    /\ Request(resp)
    /\ session' = "crashed"
    /\ dispatched' = <<>>
    /\ UNCHANGED <<history, fs>>

\* The response is not complete (done is false): break
ChatIncomplete(resp) ==
    /\ resp.kind = "response" /\ ~resp.done
    /\ Request(resp)
    /\ session' = "awaiting"
    /\ dispatched' = <<>>
    /\ UNCHANGED <<history, fs>>

\* if current_response.tool_calls: ...; continue
StructuredToolCalls(resp, outcome) ==
    /\ resp.kind = "response" /\ resp.done /\ resp.tool_calls # <<>>
    /\ Request(resp)
    /\ LET r == process_tool_calls(fs, resp.tool_calls, outcome)
       IN  /\ fs' = r.fs
           /\ dispatched' = r.log
           /\ IF r.raised
              THEN /\ session' = "crashed"
                   /\ UNCHANGED history
              ELSE /\ history' = extend(extend(history, r.responses),
                                        IF resp.content # <<>>
                                        THEN <<AssistantMessage(resp.content)>> ELSE <<>>)
                   /\ session' = AfterContinue

\* No structured tool call: tool calls written as text are executed
\* (continue), any other text is the answer (break)
TextResponse(resp, outcome) ==
    /\ resp.kind = "response" /\ resp.done /\ resp.tool_calls = <<>>
    /\ resp.content # <<>>
    /\ Request(resp)
    /\ LET all_tool_calls == embedded_tool_calls(strip(resp.content))
           r == process_tool_calls(fs, all_tool_calls, outcome)
       IN  IF all_tool_calls # <<>> /\ ~r.raised
           THEN /\ fs' = r.fs
                /\ dispatched' = r.log
                /\ history' = extend(history, r.responses)
                /\ session' = AfterContinue
           ELSE /\ fs' = r.fs
                /\ dispatched' = r.log
                /\ history' = extend(history, <<AssistantMessage(resp.content)>>)
                /\ session' = "awaiting"

\* Neither tool calls nor text: break
EmptyResponse(resp) ==
    /\ resp.kind = "response" /\ resp.done /\ resp.tool_calls = <<>>
    /\ resp.content = <<>>
    /\ Request(resp)
    /\ session' = "awaiting"
    /\ dispatched' = <<>>
    /\ UNCHANGED <<history, fs>>

-----------------------------------------------------------------------------
(* DeepSeekClient.chat, non-streaming: what a request can come back with   *)

\* ChatResponse(message=Message("assistant", content), done, tool_calls)
Response(content, tool_calls, done) ==
    [kind |-> "response", content |-> content, tool_calls |-> tool_calls, done |-> done]
\* httpx.ConnectError, or Exception("API error: ...") on a status other than 200
ChatError == [kind |-> "error", content |-> <<>>, tool_calls |-> <<>>, done |-> FALSE]

Word(w) == [k |-> "w", name |-> w]
Prose   == <<Word("Done"), Tok(" "), Word("now")>>

WriteCall ==
    [name |-> "write_file",
     arguments |-> Dict({"file_path", "content"},
                        [k \in {"file_path", "content"} |->
                            IF k = "file_path" THEN Str(<<"a">>) ELSE Str(<<"x">>)])]

\* The process outcomes that matter to a list of calls
OutcomesFor(tool_calls) ==
    IF \E i \in 1..Len(tool_calls) : tool_calls[i].name = "run_command"
    THEN ProcessOutcomes ELSE {"exit0"}
OutcomesOf(resp) ==
    OutcomesFor(resp.tool_calls \o embedded_tool_calls(strip(resp.content)))

\* One pass of the loop body of process_command, for the response `resp`
Pass(resp, outcome) ==
    \/ ChatRaises(resp)
    \/ ChatIncomplete(resp)
    \/ StructuredToolCalls(resp, outcome)
    \/ TextResponse(resp, outcome)
    \/ EmptyResponse(resp)

-----------------------------------------------------------------------------
(* Spec: whole sessions.  The model answers from a short menu.             *)

Responses ==
    { ChatError,
      Response(<<>>, <<>>, FALSE),
      Response(<<>>, <<>>, TRUE),
      Response(Prose, <<>>, TRUE),
      Response(<<>>, <<WriteCall>>, TRUE) }

Init ==
    /\ fs = FsEmpty
    /\ lastOp = NoOp
    /\ opCount = 0
    /\ CliIdle

ModelAnswers == \E resp \in Responses : \E outcome \in OutcomesOf(resp) :
    Pass(resp, outcome)

Next == UserCommandLocal \/ UserCommand \/ ModelAnswers

Spec == Init /\ [][Next]_vars

-----------------------------------------------------------------------------
(* SpecDetail: the first passes of one turn, for a wide range of responses *)

MaxPasses == 1     \* passes of the loop examined
MaxCalls  == 2     \* tool calls in one response
MaxStr    == 2     \* characters in an argument of a call written as text

RECURSIVE SeqsUpTo(_, _)
SeqsUpTo(S, n) ==
    IF n = 0 THEN {<<>>}
    ELSE LET shorter == SeqsUpTo(S, n - 1)
         IN  shorter \cup {Append(q, x) : q \in shorter, x \in S}

\* Structured tool calls: a write, a read, a command, an unregistered tool
StructuredCalls ==
    { WriteCall, Call("read_file", <<"a">>), Call("run_command", <<"c">>),
      Call("delete_file", <<"a">>) }
StructuredLists == SeqsUpTo(StructuredCalls, MaxCalls) \ {<<>>}

\* Tool calls written as text: two registered tools and an unregistered one
EmbeddedCalls ==
    { Call("write_file", <<"c">>), Call("read_file", <<"a">>),
      Call("delete_file", <<"a">>) }
EmbeddedLists == SeqsUpTo(EmbeddedCalls, MaxCalls) \ {<<>>}

\* String values that hold brackets
BracketStrings == SeqsUpTo({"c", "[", "]"}, MaxStr)

DetailResponses ==
    { ChatError,
      Response(<<>>, <<>>, FALSE),
      Response(<<>>, <<>>, TRUE),
      Response(<<Tok(" ")>>, <<>>, TRUE),
      Response(Prose, <<>>, TRUE) }
    \cup {Response(<<>>, calls, TRUE) : calls \in StructuredLists}
    \cup {Response(Prose, <<call>>, TRUE) : call \in StructuredCalls}
    \cup {Response(RenderArray(calls), <<>>, TRUE) : calls \in EmbeddedLists}
    \cup {Response(<<Tok(" ")>> \o Prose \o RenderArray(calls) \o Prose, <<>>, TRUE) :
              calls \in EmbeddedLists}
    \cup {Response(RenderArray(<<Call("write_file", v)>>), <<>>, TRUE) :
              v \in BracketStrings}
    \cup {Response(RenderItem(call), <<>>, TRUE) : call \in EmbeddedCalls}
    \cup {Response(RenderArray(<<c1>>) \o Prose \o RenderArray(<<c2>>), <<>>, TRUE) :
              c1 \in EmbeddedCalls, c2 \in EmbeddedCalls}

\* A turn has begun: the command is in the history, the loop is entered
InitDetail ==
    /\ fs \in {FsFile, FsTree}
    /\ lastOp = NoOp
    /\ opCount = 0
    /\ session = "turn"
    /\ history = <<UserMessage(<<Word("task")>>)>>
    /\ iteration = 0 /\ turn = 1 /\ requests = 0
    /\ lastResp = NoResponse /\ dispatched = <<>>
    /\ prevLen = 1 /\ prevFs = fs
    /\ lastRequest = NoRequest
    /\ roundTrip = NoRoundTrip
    /\ gitignore_spec = {}
    /\ listing = NoListing
    /\ StartIdle

NextDetail == \E resp \in DetailResponses : \E outcome \in OutcomesOf(resp) :
    /\ requests < MaxPasses
    /\ Pass(resp, outcome)

SpecDetail == InitDetail /\ [][NextDetail]_vars

-----------------------------------------------------------------------------
(* Claims about whole sessions, checked under Spec                         *)

IsToolCallResponse(resp) ==
    /\ resp.kind = "response" /\ resp.done
    /\ resp.tool_calls # <<>> \/ embedded_tool_calls(strip(resp.content)) # <<>>

\* C1: one user turn issues at most 5 model requests; a turn in which the
\* model answered every request with a tool call ends after exactly 5
\* requests, never a 6th; and a new user turn starts counting from zero.
C1_AtMostFiveRequestsPerTurn ==
    /\ requests <= 5
    /\ requests = iteration
    /\ (session = "awaiting" /\ IsToolCallResponse(lastResp)) => requests = 5
    /\ (session = "turn" /\ IsToolCallResponse(lastResp)) => requests < 5
    /\ (session = "turn" /\ lastResp = NoResponse) => requests = 0

\* the second turn of a session has run to its fifth tool-call response
C1_Witness ==
    /\ turn = 2 /\ session = "awaiting" /\ requests = 5
    /\ IsToolCallResponse(lastResp)
    /\ Len(history) >= 10

\* C5: when the model request of a turn fails, only the turn is aborted: the
\* session keeps running and waits for the next user command.
C5_FailedRequestKeepsSession ==
    lastResp.kind = "error" => session = "awaiting"

\* C11: the conversation history is append-only: every step leaves the
\* history it found as a prefix of the history it leaves (no message is
\* edited, reordered or removed).
C11_HistoryAppendOnly ==
    [][/\ Len(history') >= Len(history)
       /\ SubSeq(history', 1, Len(history)) = history]_vars

\* two turns have appended more messages than one request window holds
C11_Witness ==
    /\ turn = 2
    /\ Len(history) > 10
    /\ history[1].content.type = "command"
    /\ history[Len(history)].content.type = "tool_result"

\* C12: every model request carries the system prompt followed by exactly the
\* last min(10, len(history)) messages of the history, in their order,
\* together with the session's tool catalog, and is not streamed.
C12_RequestCarriesWindow ==
    requests > 0 =>
        LET n == IF prevLen < 10 THEN prevLen ELSE 10
        IN  /\ Len(lastRequest.messages) = n + 1
            /\ lastRequest.messages[1].role = "system"
            /\ lastRequest.messages[1].content.text = SystemPrompt
            /\ \A i \in 1..n :
                  lastRequest.messages[i + 1] = history[prevLen - n + i]
            /\ lastRequest.tools = RegisteredTools
            /\ lastRequest.stream = FALSE

\* a request sent when the history held more than 10 messages
C12_Witness ==
    /\ requests > 0
    /\ prevLen > 10
    /\ Len(lastRequest.messages) = 11
    /\ lastRequest.messages[2] = history[prevLen - 9]

\* C14: when the iteration cap is reached without a plain answer, no further
\* tool execution is attempted: the tool calls carried by the response of the
\* 5th iteration are not executed.
C14_CappedResponseNotExecuted ==
    (/\ iteration = 5
     /\ lastResp.kind = "response" /\ lastResp.done
     /\ lastResp.tool_calls # <<>>) =>
        /\ dispatched = <<>>
        /\ Len(history) = prevLen

\* C15: every batch of tool-result messages appended during a turn is
\* followed, in the same turn, by a model request whose window holds them:
\* when the turn is over, no tool result has been appended since the last
\* request.
C15_ToolResultsAreConsumed ==
    session # "turn" =>
        \A i \in (prevLen + 1)..Len(history) :
            history[i].content.type # "tool_result"

\* C16: when a turn that received a complete response ends, the last message
\* of the history is an assistant message, the final answer.
C16_TurnEndsWithAssistantMessage ==
    (/\ session = "awaiting" /\ turn > 0
     /\ lastResp.kind = "response" /\ lastResp.done) =>
        history[Len(history)].role = "assistant"

-----------------------------------------------------------------------------
(* Claims about one response, checked under SpecDetail                     *)

AppendedMessages == SubSeq(history, prevLen + 1, Len(history))
ToolResults ==
    SelectSeq(AppendedMessages, LAMBDA m : m.content.type = "tool_result")
DispatchedCalls == [i \in 1..Len(dispatched) |-> dispatched[i].call]
IsTextResponse(resp) ==
    resp.kind = "response" /\ resp.done /\ resp.tool_calls = <<>>
IsRegistered(call) == call.name \in RegisteredTools

\* C4: for a response carrying structured tool calls c1..cn, exactly n
\* tool-result messages are appended to the history, the i-th reporting the
\* result of ci, in the order of the calls, whatever the calls' duration
\* (a command that runs into its timeout included).
C4_ToolResultsInCallOrder ==
    (lastResp.kind = "response" /\ lastResp.done /\ lastResp.tool_calls # <<>>) =>
        /\ Len(ToolResults) = Len(lastResp.tool_calls)
        /\ SubSeq(AppendedMessages, 1, Len(ToolResults)) = ToolResults
        /\ DispatchedCalls = lastResp.tool_calls
        /\ \A i \in 1..Len(ToolResults) :
              /\ ToolResults[i].role = "user"
              /\ ToolResults[i].content.tool = lastResp.tool_calls[i].name
              /\ ToolResults[i].content.result = dispatched[i].result

\* a write followed by a command that timed out: two different results
C4_Witness ==
    /\ lastResp.kind = "response"
    /\ lastResp.tool_calls = <<WriteCall, Call("run_command", <<"c">>)>>
    /\ Len(ToolResults) = 2
    /\ ToolResults[1].content.result.success
    /\ ~ToolResults[2].content.result.success

\* C6: a text response that is [{"name": T, "arguments": A}] for a registered
\* tool T dispatches the same call, with the same file effect, as the
\* structured tool call (T, A) would, also when a string value of A holds
\* "[" or "]".
C6_EmbeddedSameAsStructured ==
    \A v \in BracketStrings :
        (IsTextResponse(lastResp)
            /\ lastResp.content = RenderArray(<<Call("write_file", v)>>)) =>
            LET structured ==
                    process_tool_calls(prevFs, <<Call("write_file", v)>>, "exit0")
            IN  /\ DispatchedCalls = <<Call("write_file", v)>>
                /\ dispatched = structured.log
                /\ fs = structured.fs

NamesNoRegisteredTool(content) ==
    \A i \in 1..Len(content) :
        content[i].k = "open" => content[i].name \notin RegisteredTools

\* C13: a completed response with no structured tool call, no recognisable
\* tool call in its text and a non-empty text is the final answer: the text is
\* appended to the history exactly once, as an assistant message; no tool is
\* dispatched; the turn issues no further request and the orchestrator awaits
\* the next user input.
C13_PlainAnswerIsFinal ==
    (/\ IsTextResponse(lastResp)
     /\ lastResp.content # <<>>
     /\ NamesNoRegisteredTool(lastResp.content)) =>
        /\ Len(AppendedMessages) = 1
        /\ AppendedMessages[1].role = "assistant"
        /\ AppendedMessages[1].content.type = "text"
        /\ AppendedMessages[1].content.text = lastResp.content
        /\ dispatched = <<>>
        /\ fs = prevFs
        /\ session = "awaiting"

\* a prose answer has ended the turn
C13_Witness ==
    /\ IsTextResponse(lastResp)
    /\ lastResp.content = Prose
    /\ requests = 1
    /\ session = "awaiting"
    /\ history[Len(history)].role = "assistant"

\* C22: every tool call of a response that fails, a timed-out command and a
\* call to an unknown tool included, is written to the session log (the
\* record of the executed calls) and fed back as a tool-result message that
\* holds the error, and the session goes on.
C22_FailedCallsLoggedAndFedBack ==
    /\ (lastResp.kind = "response" /\ lastResp.done /\ lastResp.tool_calls # <<>>) =>
           /\ session \in {"turn", "awaiting"}
           /\ \A i \in 1..Len(lastResp.tool_calls) :
                 /\ i <= Len(dispatched) /\ i <= Len(ToolResults)
                 /\ dispatched[i].call = lastResp.tool_calls[i]
                 /\ ~dispatched[i].result.success =>
                        /\ ToolResults[i].content.tool = lastResp.tool_calls[i].name
                        /\ ToolResults[i].content.result.hasError
                        /\ ToolResults[i].content.result.error = dispatched[i].result.error
    /\ IsTextResponse(lastResp) =>
           \A calls \in EmbeddedLists :
               lastResp.content = RenderArray(calls) =>
                   /\ session \in {"turn", "awaiting"}
                   /\ \A i \in 1..Len(calls) :
                         ~IsRegistered(calls[i]) =>
                             /\ \E j \in 1..Len(dispatched) : dispatched[j].call = calls[i]
                             /\ \E j \in 1..Len(ToolResults) :
                                   /\ ToolResults[j].content.tool = calls[i].name
                                   /\ ToolResults[j].content.result.hasError

\* C29: when a response carries both a text and structured tool calls, the
\* assistant message holding the text is appended before the tool-result
\* messages of the response's calls.
C29_TextBeforeToolResults ==
    (/\ lastResp.kind = "response" /\ lastResp.done
     /\ lastResp.tool_calls # <<>> /\ lastResp.content # <<>>) =>
        /\ Len(AppendedMessages) = Len(lastResp.tool_calls) + 1
        /\ AppendedMessages[1] = AssistantMessage(lastResp.content)
        /\ SubSeq(AppendedMessages, 2, Len(AppendedMessages)) = ToolResults

\* C30: a response whose text holds the calls of registered tools beside
\* prose leaves in the history what the structured response with the same
\* calls and the same text leaves: the tool results and the assistant message
\* holding the text.
C30_EmbeddedHistoryAsStructured ==
    \A calls \in EmbeddedLists :
        (/\ IsTextResponse(lastResp)
         /\ \A i \in 1..Len(calls) : IsRegistered(calls[i])
         /\ lastResp.content = <<Tok(" ")>> \o Prose \o RenderArray(calls) \o Prose) =>
            AppendedMessages =
                extend(process_tool_calls(prevFs, calls, "exit0").responses,
                       <<AssistantMessage(lastResp.content)>>)

\* C31: a text response without structured tool call that is one bare object
\* {"name": T, "arguments": {...}} with a registered T, not wrapped in an
\* array, is recognised as a tool call written as text and dispatched, as the
\* array form is.
C31_BareObjectDispatched ==
    \A call \in EmbeddedCalls :
        (/\ IsTextResponse(lastResp) /\ IsRegistered(call)
         /\ lastResp.content = RenderItem(call)) =>
            /\ DispatchedCalls = <<call>>
            /\ Len(ToolResults) = 1

-----------------------------------------------------------------------------
(* SpecRoundTrip: FileOperations.write_file, then read_file of the same    *)
(* path                                                                    *)

MaxText == 2     \* characters in a written text

\* Texts over an ordinary character, a carriage return and a line feed
Texts == SeqsUpTo({"x", "CR", "LF"}, MaxText)

InitRoundTrip ==
    /\ fs \in InitFileSystems
    /\ lastOp = NoOp
    /\ opCount = 0
    /\ CliIdle

RoundTripWrite == \E p \in PathInputs, c \in Texts :
    LET r == FileOperations_write_file(fs, p, c)
    IN  /\ roundTrip.stage = "none"
        /\ fs' = r.fs
        /\ lastOp' = FileOpRecord("write_file", {p}, r)
        /\ opCount' = opCount + 1
        /\ roundTrip' = [stage   |-> IF r.exc = "none" THEN "written" ELSE "write_failed",
                         path    |-> p,
                         content |-> c,
                         result  |-> <<>>]
        /\ UNCHANGED <<cliVars, gitignore_spec, listing, startVars>>

RoundTripRead ==
    LET r == FileOperations_read_file(fs, roundTrip.path)
    IN  /\ roundTrip.stage = "written"
        /\ fs' = r.fs
        /\ lastOp' = FileOpRecord("read_file", {roundTrip.path}, r)
        /\ opCount' = opCount + 1
        /\ roundTrip' = [roundTrip EXCEPT
                            !.stage  = IF r.exc = "none" THEN "read" ELSE "read_failed",
                            !.result = r.val]
        /\ UNCHANGED <<cliVars, gitignore_spec, listing, startVars>>

NextRoundTrip == RoundTripWrite \/ RoundTripRead

SpecRoundTrip == InitRoundTrip /\ [][NextRoundTrip]_vars

\* C17: for any text c, the empty text and texts with carriage returns or
\* other line endings included, write_file(p, c) followed by read_file(p) on
\* a path inside the workspace returns exactly c.
C17_WriteThenReadReturnsContent ==
    (/\ roundTrip.stage \in {"read", "read_failed"}
     /\ InWorkspace(PathOf(roundTrip.path))) =>
        /\ roundTrip.stage = "read"
        /\ roundTrip.result = roundTrip.content

-----------------------------------------------------------------------------
(* Further claims checked under SpecFiles                                  *)

\* C19: find_files still fails with the containment error when the
\* directory it is given is outside the workspace (while a directory that
\* does not exist yields an empty list and no error).
C19_FindOutsideFails ==
    (lastOp.layer = "file_ops" /\ lastOp.op = "find_files" /\ lastOp.escapes) =>
        lastOp.exc = "PathEscape"

\* C20: when a command run by run_command exceeds its timeout, the call
\* returns a success = false result that reports the timeout, and no process
\* started for the command, the shell or a child of it, is running after the
\* call has returned.
C20_TimeoutLeavesNoProcess ==
    (/\ lastOp.layer = "tool" /\ lastOp.op = "run_command"
     /\ lastOp.spawned /\ lastOp.error = "Command timed out") =>
        /\ ~lastOp.success
        /\ lastOp.alive = {}

\* a run_command call that has returned
RanCommand == lastOp.layer = "tool" /\ lastOp.op = "run_command"

-----------------------------------------------------------------------------
(* SpecList: FileOperations.list_directory in detail: the hidden entries,  *)
(* the ignore patterns and the order of the result.  An ignore pattern is  *)
(* a plain name, which matches an entry of that name at any depth and      *)
(* everything beneath it.                                                  *)

\* The code point order of the characters that occur in names
Ord(c) ==
    CASE c = "." -> 46 [] c = "/" -> 47 [] c = "A" -> 65 [] c = "B" -> 66
      [] c = "a" -> 97 [] c = "b" -> 98 [] c = "gitignore" -> 103 [] c = "h" -> 104
      [] OTHER -> 120

\* s < t for two Python strings
RECURSIVE StrLess(_, _)
StrLess(s, t) ==
    IF t = <<>> THEN FALSE
    ELSE IF s = <<>> THEN TRUE
    ELSE IF Ord(Head(s)) # Ord(Head(t)) THEN Ord(Head(s)) < Ord(Head(t))
    ELSE StrLess(Tail(s), Tail(t))

\* str.lower()
str_lower(s) ==
    [i \in 1..Len(s) |-> CASE s[i] = "A" -> "a" [] s[i] = "B" -> "b" [] OTHER -> s[i]]

\* str(item.relative_to(self.workspace_root))
RECURSIVE JoinParts(_)
JoinParts(parts) ==
    IF parts = <<>> THEN <<".">>
    ELSE IF Len(parts) = 1 THEN parts[1]
    ELSE parts[1] \o <<"/">> \o JoinParts(Tail(parts))
relative_to_workspace(item) ==
    JoinParts(SubSeq(item, Len(WorkspaceRoot) + 1, Len(item)))

\* FileOperations._should_ignore
should_ignore(spec, item) ==
    /\ spec # {}
    /\ \E k \in (Len(WorkspaceRoot) + 1)..Len(item) : item[k] \in spec

\* FileInfo(path=..., is_dir=..., is_file=...)
FileInfo(f, item) ==
    [path |-> relative_to_workspace(item), is_dir |-> IsDir(f, item),
     is_file |-> IsFile(f, item)]

\* A faulty variant of the sort key: the path is compared as it is spelt.
sort_key_case_sensitive(x) == <<~x.is_dir, x.path>>

\* key=lambda x: (not x.is_dir, x.path.lower())
sort_key(x) == <<~x.is_dir, str_lower(x.path)>>

\* sorted(files, key=...): a stable sort
RECURSIVE sorted(_)
sorted(files) ==
    IF files = <<>> THEN <<>>
    ELSE LET x    == files[Len(files)]
             done == sorted(SubSeq(files, 1, Len(files) - 1))
             KeyLess(k1, k2) ==
                 \/ ~k1[1] /\ k2[1]
                 \/ k1[1] = k2[1] /\ StrLess(k1[2], k2[2])
             \* x goes behind every entry whose key is not greater than its own
             before == {j \in 1..Len(done) : ~KeyLess(sort_key(x), sort_key(done[j]))}
             n == Cardinality(before)
         IN  SubSeq(done, 1, n) \o <<x>> \o SubSeq(done, n + 1, Len(done))

\* FileOperations.list_directory, with the entries in the order `iterdir`
\* in which path.iterdir() yields them
FileOperations_list_directory_sorted(f, dir_path, include_hidden, spec, iterdir) ==
    LET checked == FileOperations_list_directory(f, dir_path)
        Kept(item) ==
            /\ ~(~include_hidden /\ Head(Last(item)) = ".")
            /\ ~should_ignore(spec, item)
        kept == SelectSeq(iterdir, Kept)
    IN  IF checked.exc # "none" THEN Raise(f, checked.exc)
        ELSE Ret(f, sorted([i \in 1..Len(kept) |-> FileInfo(f, kept[i])]))

\* The orders in which a directory can yield its entries
RECURSIVE Orderings(_)
Orderings(S) ==
    IF S = {} THEN {<<>>}
    ELSE UNION {{<<x>> \o o : o \in Orderings(S \ {x})} : x \in S}

\* Workspaces for listings: entries a, A, B and .h in the root, each absent, a
\* file or a directory; a directory a holds a directory B, a file a and a
\* hidden file; .gitignore is there when patterns were loaded from it
ListFileSystem(k, spec) ==
    LET inA      == IF k[<<"a">>] = "dir"
                    THEN {<<W, <<"a">>, <<"B">>>>, <<W, <<"a">>, <<"a">>>>,
                          <<W, <<"a">>, <<".", "h">>>>}
                    ELSE {}
        rootDirs  == {<<W, n>> : n \in {m \in DOMAIN k : k[m] = "dir"}}
        rootFiles == {<<W, n>> : n \in {m \in DOMAIN k : k[m] = "file"}}
        ignore    == IF spec = {} THEN {} ELSE {<<W, <<".", "gitignore">>>>}
        allFiles  == rootFiles \cup ignore \cup (inA \ {<<W, <<"a">>, <<"B">>>>})
    IN  [dirs  |-> {RootDir, <<W>>} \cup rootDirs \cup (inA \cap {<<W, <<"a">>, <<"B">>>>}),
         files |-> [q \in allFiles |-> <<"x">>]]

InitList ==
    /\ gitignore_spec \in {{}, {<<"A">>}}
    /\ fs \in {ListFileSystem(k, gitignore_spec) :
                  k \in {kinds \in [{<<"a">>, <<"A">>, <<"B">>, <<".", "h">>} ->
                                       {"absent", "file", "dir"}] :
                             kinds[<<"A">>] # "dir"}}
    /\ lastOp = NoOp
    /\ opCount = 0
    /\ session = "awaiting" /\ history = <<>> /\ iteration = 0 /\ turn = 0
    /\ requests = 0 /\ lastResp = NoResponse /\ dispatched = <<>>
    /\ prevLen = 0 /\ prevFs = fs
    /\ lastRequest = NoRequest
    /\ roundTrip = NoRoundTrip
    /\ listing = NoListing
    /\ StartIdle

ListDirectory ==
    \E dir_path \in {<<>>, <<".">>, <<"a">>, <<"B">>}, include_hidden \in BOOLEAN :
      \E iterdir \in Orderings(Children(fs, resolve(PathOf(dir_path)))) :
        LET r == FileOperations_list_directory_sorted(fs, dir_path, include_hidden,
                                                      gitignore_spec, iterdir)
        IN  /\ ~listing.called
            /\ listing' = [called |-> TRUE, dir_path |-> dir_path,
                           include_hidden |-> include_hidden,
                           exc |-> r.exc, entries |-> r.val]
            /\ lastOp' = FileOpRecord("list_directory", {dir_path}, r)
            /\ opCount' = opCount + 1
            /\ fs' = r.fs
            /\ UNCHANGED <<cliVars, roundTrip, gitignore_spec, startVars>>

SpecList == InitList /\ [][ListDirectory]_vars

\* The last component of a listed path, and the entries of the listed
\* directory that must be listed
EntryName(entry) == Last(Parts(entry.path))
Expected ==
    {q \in Children(fs, resolve(PathOf(listing.dir_path))) :
        /\ Last(q) \notin gitignore_spec
        /\ listing.include_hidden \/ Head(Last(q)) # "."}

-----------------------------------------------------------------------------
(* SpecStartup: ToolAgentCLI.run_interactive from its first line: the       *)
(* model is set up (the service is started, the model is looked for and,   *)
(* when missing, pulled and looked for again), then the prompt loop runs   *)
(* until it ends.  The model server answers as it likes.  A model name is  *)
(* a sequence of characters: "d" and "D" (a letter in both cases), "x",    *)
(* ":" and " ".                                                            *)

MaxLines == 3      \* lines the server sends in answer to one pull request

JsonList(items) == [t |-> "list", items |-> items]

\* DeepSeekClient._normalize_model_name: name.lower().split(":", 1)[0].strip()
normalize_model_name(name) ==
    LET lower == [i \in 1..Len(name) |-> IF name[i] = "D" THEN "d" ELSE name[i]]
        colons == {i \in 1..Len(lower) : lower[i] = ":"}
        head == IF colons = {} THEN lower
                ELSE SubSeq(lower, 1, (CHOOSE i \in colons : \A j \in colons : i <= j) - 1)
        inked == {i \in 1..Len(head) : head[i] # " "}
    IN  IF inked = {} THEN <<>>
        ELSE SubSeq(head, CHOOSE i \in inked : \A j \in inked : i <= j,
                          CHOOSE i \in inked : \A j \in inked : j <= i)

\* DeepSeekClient._matches_target_model
matches_target_model(model, entry) ==
    LET target == normalize_model_name(model)
    IN  IF entry.t = "str" THEN normalize_model_name(entry.s) = target
        ELSE IF entry.t = "dict"
        THEN \E key \in {"name", "model"} :
                 LET candidate == Get(entry, key, JsonNull)
                 IN  candidate.t = "str" /\ normalize_model_name(candidate.s) = target
        ELSE FALSE

\* What GET /api/tags brings: an exception of the HTTP client, or a response
\* with a status code and a body; NotADict stands for a body that is not JSON.
TagsEntries ==
    { Str(<<"d">>), Str(<<"D", ":", "x">>), Str(<<"x">>), JsonInt,
      Dict({"name"}, [k \in {"name"} |-> Str(<<" ", "d">>)]),
      Dict({"model"}, [k \in {"model"} |-> Str(<<"d", "x">>)]),
      Dict({"name"}, [k \in {"name"} |-> JsonInt]) }
TagsBodies ==
    { NotADict, JsonList(<<>>), Dict({}, <<>>),
      Dict({"models"}, [k \in {"models"} |-> JsonNull]) }
    \cup { Dict({"models"}, [k \in {"models"} |-> JsonList(<<e>>)]) : e \in TagsEntries }
    \cup { Dict({"models"}, [k \in {"models"} |-> JsonList(<<Str(<<"x">>), e>>)]) :
               e \in TagsEntries }
TagsResponses ==
    { [kind |-> k, status_code |-> 0, body |-> NotADict] :
          k \in {"ConnectError", "TimeoutException", "ReadError"} }
    \cup { [kind |-> "response", status_code |-> 500, body |-> Dict({}, <<>>)] }
    \cup { [kind |-> "response", status_code |-> 200, body |-> b] : b \in TagsBodies }

\* the body of check_model_availability's try block
tags_listing_matches(model, server) ==
    IF server.kind # "response" THEN [exc |-> server.kind, val |-> FALSE]
    ELSE IF server.status_code # 200 THEN [exc |-> "none", val |-> FALSE]
    ELSE IF server.body = NotADict THEN [exc |-> "JSONDecodeError", val |-> FALSE]
    ELSE IF server.body.t # "dict" THEN [exc |-> "AttributeError", val |-> FALSE]
    ELSE LET models == Get(server.body, "models", JsonList(<<>>))
         IN  IF models.t # "list" THEN [exc |-> "TypeError", val |-> FALSE]
             ELSE [exc |-> "none",
                   val |-> \E i \in 1..Len(models.items) :
                               matches_target_model(model, models.items[i])]

\* A faulty variant of check_model_availability: only the connection and timeout
\* errors are caught.
check_model_availability_narrow(model, server) ==
    LET r == tags_listing_matches(model, server)
    IN  IF r.exc \in {"none", "ConnectError", "TimeoutException"}
        THEN [raised |-> FALSE, val |-> r.val]
        ELSE [raised |-> TRUE, val |-> FALSE]

\* DeepSeekClient.check_model_availability
check_model_availability(model, server) ==
    LET r == tags_listing_matches(model, server)
    IN  [raised |-> FALSE, val |-> r.exc = "none" /\ r.val]

\* The lines POST /api/pull may bring: an empty line, a line that is not JSON,
\* and JSON values: a number, and objects with or without "status" and "error".
PullObject(keys, status) ==
    Dict(keys, [k \in keys |-> IF k = "status" THEN Str(<<status>>) ELSE Str(<<"boom">>)])
PullLines ==
    { [k |-> "blank"], [k |-> "malformed"], [k |-> "json", v |-> JsonInt],
      [k |-> "json", v |-> PullObject({}, "")],
      [k |-> "json", v |-> PullObject({"error"}, "")],
      [k |-> "json", v |-> PullObject({"status", "error"}, "success")] }
    \cup { [k |-> "json", v |-> PullObject({"status"}, st)] :
               st \in {"downloading", "success", "Exists"} }

\* str(value).lower() of a status
status_lower(v) ==
    IF v.t = "null" THEN <<"none">>
    ELSE [i \in 1..Len(v.s) |-> IF v.s[i] = "Exists" THEN "exists" ELSE v.s[i]]

\* pull_model: one turn of `async for line in response.aiter_lines()`
pull_model_line(p, line) ==
    LET got == [p EXCEPT !.lines = Append(@, line)]
    IN  IF line.k \in {"blank", "malformed"} THEN got
        ELSE LET payload == line.v
                 kept == [got EXCEPT !.last_payload = payload]
             IN  IF payload.t # "dict"
                 THEN [kept EXCEPT !.state = "raised"]      \* "error" in 5: TypeError
                 ELSE IF "error" \in payload.keys
                 THEN [kept EXCEPT !.state = "raised"]      \* RuntimeError(payload["error"])
                 ELSE [kept EXCEPT !.yielded = Append(@, payload)]

\* A faulty variant of the end of pull_model: the last status is not looked at.
pull_model_end_any_status(p) ==
    IF p.last_payload = NotADict \/ p.last_payload = Dict({}, <<>>)
    THEN [p EXCEPT !.state = "raised"]
    ELSE [p EXCEPT !.state = "done"]

\* pull_model after the last line: `if not last_payload`, then the status check
pull_model_end(p) ==
    IF p.last_payload = NotADict \/ p.last_payload = Dict({}, <<>>)
    THEN [p EXCEPT !.state = "raised"]
    ELSE IF status_lower(Get(p.last_payload, "status", Str(<<>>)))
                \notin {<<"success">>, <<"exists">>}
    THEN [p EXCEPT !.state = "raised"]
    ELSE [p EXCEPT !.state = "done"]

\* await client.client.aclose()
aclose(c) == [c EXCEPT !.closes = @ + 1]

\* A faulty variant of setup_model's except clause: the connection is left open.
setup_failed_leaking(c) == c

\* setup_model's except clause: the connection is closed before typer.Exit(code=1)
setup_failed(c) == aclose(c)

\* A faulty variant of run_interactive: no finally clause.
run_interactive_no_finally(c) == c

\* run_interactive's finally clause
run_interactive_finally(c) == aclose(c)

Exit1 == [startup EXCEPT !.setup = "exit", !.exit_code = 1]
Returned == [startup EXCEPT !.setup = "returned", !.loop = "prompting"]

InitStartup ==
    /\ fs = FsEmpty
    /\ lastOp = NoOp
    /\ opCount = 0
    /\ session = "awaiting" /\ history = <<>> /\ iteration = 0 /\ turn = 0
    /\ requests = 0 /\ lastResp = NoResponse /\ dispatched = <<>>
    /\ prevLen = 0 /\ prevFs = fs
    /\ lastRequest = NoRequest
    /\ roundTrip = NoRoundTrip
    /\ gitignore_spec = {}
    /\ listing = NoListing
    /\ client \in {[created |-> FALSE, closes |-> 0, model |-> m] :
                       m \in {<<"d">>, <<"D", ":", "d">>}}
    /\ startup = [setup |-> "ensure", exit_code |-> 0, first |-> "none", second |-> "none",
                  loop |-> "none", prompts |-> 0, lastCheck |-> [called |-> FALSE]]
    /\ pull = NoPull
    /\ agent = NoCommand
    /\ steps = NoSteps
    /\ cleaned = NoClean

\* setup_model up to DeepSeekClient(model=self.model)
EnsureOllama == \E success \in BOOLEAN :
    /\ startup.setup = "ensure"
    /\ IF success
       THEN /\ client' = [client EXCEPT !.created = TRUE]
            /\ startup' = [startup EXCEPT !.setup = "check"]
       ELSE /\ client' = client
            /\ startup' = Exit1
    /\ UNCHANGED <<fileVars, cliVars, roundTrip, gitignore_spec, listing, pull, agent, steps,
                   cleaned>>

\* setup_model: `if not await client.check_model_availability()`, before the
\* pull and after it
CheckAvailability == \E server \in TagsResponses :
    LET r == check_model_availability(client.model, server)
        seen == [called |-> TRUE, server |-> server, raised |-> r.raised, val |-> r.val]
        answer == IF r.val THEN "yes" ELSE "no"
    IN  /\ startup.setup \in {"check", "recheck"}
        /\ IF startup.setup = "check"
           THEN /\ startup' = [(IF r.val THEN Returned ELSE startup) EXCEPT
                                  !.setup = IF r.raised THEN "raised"
                                            ELSE IF r.val THEN "returned" ELSE "pull",
                                  !.first = answer, !.lastCheck = seen]
                /\ client' = client
           ELSE /\ startup' = [(IF r.val THEN Returned ELSE Exit1) EXCEPT
                                  !.setup = IF r.raised THEN "raised"
                                            ELSE IF r.val THEN "returned" ELSE "exit",
                                  !.second = answer, !.lastCheck = seen]
                /\ client' = IF r.val \/ r.raised THEN client ELSE setup_failed(client)
        /\ UNCHANGED <<fileVars, cliVars, roundTrip, gitignore_spec, listing, pull, agent, steps,
                   cleaned>>

\* pull_model up to the status check of the response
PullStart == \E status_code \in {200, 500} :
    /\ startup.setup = "pull" /\ pull.state = "idle"
    /\ IF status_code = 200
       THEN /\ pull' = [pull EXCEPT !.state = "streaming"]
            /\ startup' = [startup EXCEPT !.lastCheck = [called |-> FALSE]]
            /\ client' = client
       ELSE /\ pull' = [pull EXCEPT !.state = "raised"]
            /\ startup' = [Exit1 EXCEPT !.lastCheck = [called |-> FALSE]]
            /\ client' = setup_failed(client)
    /\ UNCHANGED <<fileVars, cliVars, roundTrip, gitignore_spec, listing, agent, steps,
                   cleaned>>

\* one line of the pull, through pull_model and setup_model's `async for`
PullLine == \E line \in PullLines :
    LET p == pull_model_line(pull, line)
    IN  /\ startup.setup = "pull" /\ pull.state = "streaming"
        /\ Len(pull.lines) < MaxLines
        /\ pull' = p
        /\ startup' = IF p.state = "raised" THEN Exit1 ELSE startup
        /\ client' = IF p.state = "raised" THEN setup_failed(client) ELSE client
        /\ UNCHANGED <<fileVars, cliVars, roundTrip, gitignore_spec, listing, agent, steps,
                   cleaned>>

\* the server ends the stream
PullEnd ==
    LET p == pull_model_end(pull)
    IN  /\ startup.setup = "pull" /\ pull.state = "streaming"
        /\ pull' = p
        /\ startup' = IF p.state = "raised" THEN Exit1
                      ELSE [startup EXCEPT !.setup = "recheck"]
        /\ client' = IF p.state = "raised" THEN setup_failed(client) ELSE client
        /\ UNCHANGED <<fileVars, cliVars, roundTrip, gitignore_spec, listing, agent, steps,
                   cleaned>>

\* run_interactive's loop: a command is processed and the loop goes on, or
\* the loop ends: process_command returns False, the user interrupts the
\* prompt, or an exception leaves process_command
Prompt == \E event \in {"continue", "quit", "KeyboardInterrupt", "exception"} :
    /\ startup.setup = "returned" /\ startup.loop = "prompting"
    /\ IF event = "continue"
       THEN /\ startup.prompts < MaxTurns
            /\ startup' = [startup EXCEPT !.prompts = @ + 1]
            /\ client' = client
       ELSE /\ startup' = [startup EXCEPT
                              !.loop = IF event = "exception" THEN "propagated"
                                       ELSE "returned"]
            /\ client' = run_interactive_finally(client)
    /\ UNCHANGED <<fileVars, cliVars, roundTrip, gitignore_spec, listing, pull, agent, steps,
                   cleaned>>

NextStartup ==
    EnsureOllama \/ CheckAvailability \/ PullStart \/ PullLine \/ PullEnd \/ Prompt

SpecStartup == InitStartup /\ [][NextStartup]_vars

\* C23: setup_model returns a client only if an availability check said yes,
\* the first one, or the second one after a pull that ended without error; in
\* every other case (the service cannot be started, the pull fails, the model
\* is still missing after the pull) the process exits with status 1, and a
\* client that was created has had its connection closed.
C23_ClientOnlyAfterAvailability ==
    /\ startup.setup = "returned" =>
           /\ client.created
           /\ \/ startup.first = "yes"
              \/ startup.first = "no" /\ pull.state = "done" /\ startup.second = "yes"
    /\ (pull.state = "raised" \/ startup.second = "no") => startup.setup = "exit"
    /\ startup.setup \notin {"ensure", "check", "pull", "recheck", "returned"} =>
           /\ startup.setup = "exit" /\ startup.exit_code = 1
           /\ client.created => client.closes = 1

\* the pull ended well and the model is still missing
C23_Witness ==
    /\ startup.setup = "exit" /\ startup.exit_code = 1
    /\ pull.state = "done" /\ startup.second = "no"
    /\ client.created /\ client.closes = 1

\* C24: once setup_model has returned a client, every end of run_interactive
\* (a quit command, an interrupt at the prompt, an exception out of a turn)
\* has released the connection exactly once; while the loop runs the
\* connection is open.
C24_ConnectionReleasedOnce ==
    /\ startup.loop \in {"returned", "propagated"} => client.closes = 1
    /\ startup.loop = "prompting" => client.closes = 0

\* an exception left a turn after a command that went well
C24_Witness ==
    startup.loop = "propagated" /\ startup.prompts > 0 /\ client.closes = 1

\* the JSON values among the lines pull_model has read
PullValues == SelectSeq(pull.lines, LAMBDA line : line.k = "json")
CarriesError(line) == line.v.t = "dict" /\ "error" \in line.v.keys
StatusOf(line) ==
    IF line.v.t = "dict" THEN status_lower(Get(line.v, "status", Str(<<>>))) ELSE <<>>

TagsListing(server) ==
    IF /\ server.kind = "response" /\ server.status_code = 200
       /\ server.body.t = "dict"
       /\ Get(server.body, "models", JsonList(<<>>)).t = "list"
    THEN Get(server.body, "models", JsonList(<<>>)).items
    ELSE <<>>

\* C26: check_model_availability never raises; it returns False when the
\* server cannot be reached, times out, answers with a status other than 200
\* or with a body that is no tags listing, and True only when the listing has
\* an entry that matches the target model.
C26_AvailabilityNeverRaises ==
    startup.lastCheck.called =>
        LET server == startup.lastCheck.server
        IN  /\ ~startup.lastCheck.raised
            /\ startup.lastCheck.val =>
                   \E i \in 1..Len(TagsListing(server)) :
                       matches_target_model(client.model, TagsListing(server)[i])
            /\ (\/ server.kind # "response"
                \/ server.status_code # 200
                \/ server.body.t # "dict"
                \/ Get(server.body, "models", JsonList(<<>>)).t # "list") =>
                   ~startup.lastCheck.val

\* a 200 answer whose body is not JSON
C26_Witness ==
    /\ startup.lastCheck.called
    /\ startup.lastCheck.server.kind = "response"
    /\ startup.lastCheck.server.status_code = 200
    /\ startup.lastCheck.server.body = NotADict
    /\ ~startup.lastCheck.raised /\ ~startup.lastCheck.val

-----------------------------------------------------------------------------
(* SpecAgent: process_command of AgentCLI and of ToolAgentCLI, a whole      *)
(* command at a time.  A command is a sequence of words and blanks.  The   *)
(* model answers with a text, with nothing, or the request fails; answers  *)
(* with tool calls are the matter of Spec and SpecDetail.  The commands    *)
(* generate, explain and review of AgentCLI are not among the inputs.      *)

\* `keyword in command_lower`, for a keyword that is a word of the command
Mentions(c, keyword) == \E i \in 1..Len(c) : c[i] = keyword

\* command.strip(), as text
Stripped(words) ==
    LET t == strip(CommandText(words)) IN [i \in 1..Len(t) |-> t[i].name]

\* The letters of a word, in the pieces a substring test can tell apart
Chunks(word) ==
    CASE word = "there"     -> <<"t", "here">>
      [] word = "myproject" -> <<"my", "project">>
      [] OTHER              -> <<word>>

\* str.strip / str.rstrip of the characters in `chars`
RECURSIVE rstrip_chars(_, _)
rstrip_chars(q, chars) ==
    IF q # <<>> /\ q[Len(q)] \in chars
    THEN rstrip_chars(SubSeq(q, 1, Len(q) - 1), chars) ELSE q
RECURSIVE lstrip_chars(_, _)
lstrip_chars(q, chars) ==
    IF q # <<>> /\ Head(q) \in chars THEN lstrip_chars(Tail(q), chars) ELSE q
strip_chars(q, chars) == lstrip_chars(rstrip_chars(q, chars), chars)

common_aliases ==
    { <<"this", " ", "directory">>, <<"current", " ", "directory">>, <<"here">>,
      <<"workspace">>, <<"project">>, <<"project", " ", "root">>,
      <<"root", " ", "directory">> }

\* `phrase in lowered`: the phrase is found anywhere in the text, inside a
\* longer word as well
Within(lowered, phrase) ==
    IF Len(phrase) = 1
    THEN \E i \in 1..Len(lowered) : \E j \in 1..Len(Chunks(lowered[i])) :
             Chunks(lowered[i])[j] = phrase[1]
    ELSE \E i \in 1..(Len(lowered) - 2) :
             /\ Chunks(lowered[i])[Len(Chunks(lowered[i]))] = phrase[1]
             /\ lowered[i + 1] = " "
             /\ Chunks(lowered[i + 2])[1] = phrase[3]

\* AgentCLI._resolve_directory_alias
resolve_directory_alias(raw) ==
    LET query == rstrip_chars(strip_chars(strip_chars(strip_chars(raw, {" "}), {"\""}),
                                          {"'"}),
                              {"?", ".", "!"})
        lowered == [i \in 1..Len(query) |-> Lower(query[i])]
        ins == {i \in 1..(Len(lowered) - 1) : lowered[i] = "in" /\ lowered[i + 1] = " "}
        first == CHOOSE i \in ins : \A j \in ins : i <= j
        candidate == strip_chars(strip_chars(strip_chars(
                         SubSeq(query, first + 2, Len(query)), {" "}), {"\""}), {"'"})
    IN  IF query = <<>> THEN <<".">>
        ELSE IF \E phrase \in common_aliases : Within(lowered, phrase) THEN <<".">>
        ELSE IF Len(lowered) >= 2 /\ lowered[1] \in {"directory", "folder"}
                /\ lowered[2] = " "
             THEN IF strip_chars(SubSeq(query, 3, Len(query)), {" "}) = <<>> THEN <<".">>
                  ELSE strip_chars(SubSeq(query, 3, Len(query)), {" "})
        ELSE IF /\ \E i \in 2..(Len(lowered) - 1) :
                      lowered[i - 1] = " " /\ lowered[i] = "in" /\ lowered[i + 1] = " "
                /\ candidate # <<>>
             THEN IF [i \in 1..Len(candidate) |-> Lower(candidate[i])] \in common_aliases
                  THEN <<".">> ELSE candidate
        ELSE query

\* AgentCLI._maybe_handle_list_request: the directory to list, or None
maybe_handle_list_request(words) ==
    LET c == command_lower(words)
        s == Stripped(words)
        ins == {i \in 1..(Len(c) - 2) : c[i] = "in" /\ c[i + 1] = " "}
        directory == IF ins = {} THEN <<>>
                     ELSE SubSeq(s, (CHOOSE i \in ins : \A j \in ins : i <= j) + 2, Len(s))
    IN  IF \/ ~Mentions(c, "files")
           \/ ~\E k \in {"list", "show", "display", "what", "which"} : Mentions(c, k)
           \/ \E k \in {"read", "open", "create", "delete", "move", "copy"} : Mentions(c, k)
        THEN [none |-> TRUE, directory |-> <<>>]
        ELSE [none |-> FALSE, directory |-> resolve_directory_alias(directory)]

\* AgentCLI._list_directory_for_command: the summary of the listing; the
\* lines of the entries are not told apart
list_directory_for_command(f, directory) ==
    LET r == FileOperations_list_directory(f, directory)
    IN  <<Word("[shell]"), Tok(" "), Word("ls"), Tok(" ")>>
        \o [i \in 1..Len(directory) |-> Word(directory[i])]
        \o <<Tok("LF"),
             IF r.exc # "none" THEN Word("ERROR")
             ELSE IF r.val = {} THEN Word("(empty)") ELSE Word("entries")>>

code_keywords ==
    {"create", "write", "make", "build", "implement", "generate", "code", "program",
     "script", "function", "class", "fizz", "buzz"}

\* AgentCLI.process_command: what it returns (or that it raised), the history
\* and the file system it leaves, the directory listings it made and the
\* requests it sent to the model
AgentCLI_process_command(f, h, words, resp) ==
    LET c == command_lower(words)
        s == Stripped(words)
        natural == maybe_handle_list_request(words)
        tool_messages ==
            IF natural.none THEN <<>>
            ELSE <<AssistantMessage(list_directory_for_command(f, natural.directory))>>
        Done(ret, hist, f2, n, sent) ==
            [returned |-> ret, history |-> hist, fs |-> f2, listings |-> n, sent |-> sent]
        starts(prefix) == Len(c) >= Len(prefix) /\ SubSeq(c, 1, Len(prefix)) = prefix
        rest == SubSeq(s, 3, Len(s))
        enhanced ==
            IF /\ \E k \in code_keywords : Mentions(c, k)
               /\ ~Mentions(c, "file") /\ ~Mentions(c, "files")
            THEN strip(CommandText(words)) \o <<Tok("LF"), Word("IMPORTANT")>>
            ELSE strip(CommandText(words))
        asked == extend(h, <<UserMessage(enhanced)>> \o tool_messages)
    IN  IF c = <<>> THEN Done("True", h, f, 0, 0)
        ELSE IF c \in {<<"quit">>, <<"exit">>, <<"q">>} THEN Done("False", h, f, 0, 0)
        ELSE IF starts(<<"write", " ">>)
             \* the operator types EOF at once: the content is empty
             THEN Done("True", h, FileOperations_write_file(f, rest, <<>>).fs,
                       Len(tool_messages), 0)
        ELSE IF starts(<<"read", " ">>) THEN Done("True", h, f, Len(tool_messages), 0)
        ELSE IF c[1] \in {"ls", "list"} /\ natural.none
             THEN Done("True",
                       extend(h, <<AssistantMessage(list_directory_for_command(
                                       f, resolve_directory_alias(rest)))>>),
                       f, 1, 0)
        ELSE IF starts(<<"find", " ">>) THEN Done("True", h, f, Len(tool_messages), 0)
        ELSE IF c[1] = "!" \/ starts(<<"shell", " ">>)
             THEN Done("True", h, f, Len(tool_messages), 0)
        ELSE IF c \in {<<"help">>, <<"?">>} THEN Done("True", h, f, Len(tool_messages), 0)
        ELSE IF resp.kind = "error" THEN Done("raised", asked, f, Len(tool_messages), 1)
        ELSE Done("True", extend(asked, <<AssistantMessage(resp.content)>>), f,
                  Len(tool_messages), 1)

\* ToolAgentCLI.process_command for a model that calls no tool
ToolAgentCLI_process_command(f, h, words, resp) ==
    LET c == command_lower(words)
        Done(ret, hist, sent) ==
            [returned |-> ret, history |-> hist, fs |-> f, listings |-> 0, sent |-> sent]
        asked == extend(h, <<UserMessage(strip(CommandText(words)))>>)
    IN  IF c = <<>> THEN Done("True", h, 0)
        ELSE IF c \in {<<"quit">>, <<"exit">>, <<"q">>} THEN Done("False", h, 0)
        ELSE IF c \in {<<"help">>, <<"?">>} THEN Done("True", h, 0)
        ELSE IF resp.kind = "error" THEN Done("raised", asked, 1)
        ELSE IF resp.content = <<>> THEN Done("True", asked, 1)
        ELSE Done("True", extend(asked, <<AssistantMessage(resp.content)>>), 1)

AgentCommands ==
    Commands \cup
    { <<"show", " ", "files">>, <<"list", " ", "files">>,
      <<"what", " ", "Files", " ", "in", " ", "a">>,
      <<"show", " ", "files", " ", "in", " ", "here">>,
      <<"read", " ", "files">>, <<"ls">>, <<"ls", " ", "a">>, <<"write", " ", "b">>,
      <<"find", " ", "a">>, <<"find", " ", "which", " ", "files">>,
      <<"!", "c">>, <<"create", " ", "it">>,
      <<"ls", " ", "myproject">>, <<"ls", " ", "there">> }

\* the workspace of FsTree with the directories /w/myproject and /w/there
FsProject == [FsTree EXCEPT !.dirs = @ \cup {<<W, <<"myproject">>>>, <<W, <<"there">>>>}]

AgentReplies == {ChatError, Response(Prose, <<>>, TRUE), Response(<<>>, <<>>, TRUE)}

InitAgent ==
    /\ fs \in {FsTree, FsProject}
    /\ lastOp = NoOp
    /\ opCount = 0
    /\ session = "awaiting" /\ history = <<>> /\ iteration = 0 /\ turn = 0
    /\ requests = 0 /\ lastResp = NoResponse /\ dispatched = <<>>
    /\ prevLen = 0 /\ prevFs = fs
    /\ lastRequest = NoRequest
    /\ roundTrip = NoRoundTrip
    /\ gitignore_spec = {}
    /\ listing = NoListing
    /\ client = [created |-> TRUE, closes |-> 0, model |-> <<"d">>]
    /\ startup = [setup |-> "returned", exit_code |-> 0, first |-> "yes", second |-> "none",
                  loop |-> "prompting", prompts |-> 0,
                  lastCheck |-> [called |-> FALSE]]
    /\ pull = NoPull
    /\ agent \in {[NoCommand EXCEPT !.cli = k] : k \in {"AgentCLI", "ToolAgentCLI"}}
    /\ steps = NoSteps
    /\ cleaned = NoClean

\* run_interactive: the prompt returns a command and process_command handles it
Processed(words, r) ==
    /\ session = "awaiting"
    /\ turn < MaxTurns
    /\ turn' = turn + 1
    /\ history' = r.history
    /\ fs' = r.fs
    /\ agent' = [cli |-> agent.cli, command |-> words, returned |-> r.returned,
                 listings |-> r.listings, before |-> history, sent |-> r.sent]
    /\ session' = CASE r.returned = "False"  -> "ended"
                    [] r.returned = "raised" -> "crashed"
                    [] OTHER                 -> "awaiting"
    /\ UNCHANGED <<lastOp, opCount, iteration, requests, lastResp, dispatched, prevLen,
                   prevFs, lastRequest, roundTrip, gitignore_spec, listing, client,
                   startup, pull, steps, cleaned>>

AgentCommand == \E words \in AgentCommands, resp \in AgentReplies :
    /\ agent.cli = "AgentCLI"
    /\ Processed(words, AgentCLI_process_command(fs, history, words, resp))

ToolAgentCommand == \E words \in Commands, resp \in AgentReplies :
    /\ agent.cli = "ToolAgentCLI"
    /\ Processed(words, ToolAgentCLI_process_command(fs, history, words, resp))

NextAgent == AgentCommand \/ ToolAgentCommand

SpecAgent == InitAgent /\ [][NextAgent]_vars

\* the command is the word w, with or without blanks around it
TrimmedWord(words, w) == words \in {<<w>>, <<" ", w>>, <<w, " ">>, <<" ", w, " ">>}
IsQuitCommand(words) == \E w \in {"quit", "Quit", "exit", "q"} : TrimmedWord(words, w)
IsLocalCommand(words) ==
    \/ IsQuitCommand(words)
    \/ words \in {<<>>, <<" ">>}
    \/ \E w \in {"help", "HELP", "?"} : TrimmedWord(words, w)

\* C27: process_command, of AgentCLI and of ToolAgentCLI, returns False
\* exactly for the commands that are quit, exit or q once trimmed and put in
\* lower case, and True whenever it returns for another command; the quit
\* commands, the empty command and help leave the history as it was and send
\* no request to the model.
C27_OnlyQuitReturnsFalse ==
    agent.returned # "none" =>
        /\ agent.returned = "False" <=> IsQuitCommand(agent.command)
        /\ agent.returned \in {"True", "False", "raised"}
        /\ IsLocalCommand(agent.command) =>
              /\ history = agent.before
              /\ agent.sent = 0
              /\ agent.returned # "raised"

\* AgentCLI has returned False for " Quit " after a turn with the model
C27_Witness ==
    /\ agent.cli = "AgentCLI"
    /\ agent.command = <<" ", "Quit", " ">>
    /\ agent.returned = "False"
    /\ Len(history) = 2 /\ history = agent.before

\* the command mentions "files", holds a list keyword and no skip keyword
IsListingRequest(words) ==
    LET said == {Lower(words[i]) : i \in 1..Len(words)}
    IN  /\ "files" \in said
        /\ said \cap {"list", "show", "display", "what", "which"} # {}
        /\ said \cap {"read", "open", "create", "delete", "move", "copy"} = {}

\* C28: for every command AgentCLI takes for a listing request, the listing
\* is made exactly once and its summary is appended to the history as an
\* assistant message that begins with "[shell] ls ", after the user's message
\* and before the model's reply.
C28_ListingFiledOnce ==
    (agent.cli = "AgentCLI" /\ agent.returned # "none"
        /\ IsListingRequest(agent.command)) =>
        LET appended == SubSeq(history, Len(agent.before) + 1, Len(history))
        IN  /\ agent.listings = 1
            /\ Len(appended) >= 2
            /\ appended[1].role = "user"
            /\ appended[2].role = "assistant"
            /\ SubSeq(appended[2].content.text, 1, 4) =
                   <<Word("[shell]"), Tok(" "), Word("ls"), Tok(" ")>>
            /\ agent.returned = "True" =>
                   Len(appended) = 3 /\ appended[3].role = "assistant"

-----------------------------------------------------------------------------
(* SpecSteps: process_command one await at a time. The coroutine gives up  *)
(* control only at `async for ... client.chat(...)` and at                 *)
(* `await self.tool_executor.execute(...)`; the steps below are the code    *)
(* between two such points, the request and the tool being under way in    *)
(* between.                                                                *)

\* names of the calls a response carries
StepTools == {"write_file", "run_command"}
StepCallLists == SeqsUpTo(StepTools, MaxCalls)

\* the calls of the response whose result is in tool_responses
Answered(s) == {s.tool_responses[j] : j \in 1..Len(s.tool_responses)}

\* A faulty variant of startable: every call of the response launched at once.
startable_gather(s) == (1..Len(s.tool_calls)) \ (s.running \cup Answered(s))

\* process_tool_calls: `for tool_call in tool_calls:` with
\* `result = await self.tool_executor.execute(tool_name, tool_args)` in its
\* body: the loop reaches a call when the await of the one before has returned
startable(s) ==
    IF s.running = {} /\ Len(s.tool_responses) < Len(s.tool_calls)
    THEN {Len(s.tool_responses) + 1}
    ELSE {}

InitSteps ==
    /\ fs = FsEmpty
    /\ lastOp = NoOp
    /\ opCount = 0
    /\ CliIdle

StepsOnly == UNCHANGED <<fileVars, cliVars, roundTrip, gitignore_spec, listing, client,
                         startup, pull, agent, cleaned>>

\* a task command: history.append, iteration = 0
StepCommand ==
    /\ steps.phase = "awaiting"
    /\ steps' = [NoSteps EXCEPT !.phase = "loop"]
    /\ StepsOnly

\* while iteration < max_iterations: iteration += 1; client.chat(...) is awaited
StepChat ==
    /\ steps.phase = "loop"
    /\ loop_continues(steps.iteration)
    /\ steps' = [steps EXCEPT !.phase = "chat", !.iteration = @ + 1, !.in_flight = @ + 1,
                              !.tool_calls = <<>>, !.tool_responses = <<>>]
    /\ StepsOnly

\* the while condition fails after the fifth pass: return True
StepLoopEnd ==
    /\ steps.phase = "loop"
    /\ ~loop_continues(steps.iteration)
    /\ steps' = [steps EXCEPT !.phase = "awaiting"]
    /\ StepsOnly

\* client.chat raises; nothing in process_command or run_interactive catches it
StepChatRaises ==
    /\ steps.phase = "chat"
    /\ steps' = [steps EXCEPT !.phase = "crashed", !.in_flight = @ - 1]
    /\ StepsOnly

\* client.chat returns: tool calls (structured or found in the text) go to
\* process_tool_calls; anything else ends the loop and process_command
StepResponse == \E tool_calls \in StepCallLists :
    /\ steps.phase = "chat"
    /\ steps' = [steps EXCEPT !.phase = IF tool_calls = <<>> THEN "awaiting" ELSE "tools",
                              !.in_flight = @ - 1,
                              !.tool_calls = tool_calls]
    /\ StepsOnly

\* process_tool_calls: execute(tool_name, tool_args) is called and awaited
StepExecute == \E i \in startable(steps) :
    /\ steps.phase = "tools"
    /\ steps' = [steps EXCEPT !.running = @ \cup {i}]
    /\ StepsOnly

\* execute returns: tool_responses.append(tool_message)
StepResult == \E i \in steps.running :
    /\ steps.phase = "tools"
    /\ steps' = [steps EXCEPT !.running = @ \ {i}, !.tool_responses = Append(@, i)]
    /\ StepsOnly

\* process_tool_calls returns; the results go to the history; `continue`
StepContinue ==
    /\ steps.phase = "tools"
    /\ Len(steps.tool_responses) = Len(steps.tool_calls)
    /\ steps' = [steps EXCEPT !.phase = "loop"]
    /\ StepsOnly

NextSteps ==
    \/ StepCommand \/ StepChat \/ StepLoopEnd \/ StepChatRaises
    \/ StepResponse \/ StepExecute \/ StepResult \/ StepContinue

SpecSteps == InitSteps /\ [][NextSteps]_vars

\* C32: within one session no two orchestration steps overlap: at most one
\* tool call is executing at any time, the calls of a response are started in
\* call order and call i+1 is started only when the result of call i is there,
\* at most one model request is in flight, and none is while a tool executes.
C32_NoOverlap ==
    /\ Cardinality(steps.running) <= 1
    /\ steps.running \subseteq {Len(steps.tool_responses) + 1}
    /\ \A j \in 1..Len(steps.tool_responses) : steps.tool_responses[j] = j
    /\ steps.in_flight <= 1
    /\ steps.running # {} => steps.in_flight = 0 /\ steps.phase = "tools"
    /\ steps.in_flight = 1 <=> steps.phase = "chat"

\* the second call of a response is executing, the result of the first is there
C32_Witness ==
    /\ steps.phase = "tools"
    /\ Len(steps.tool_calls) = 2
    /\ steps.tool_responses = <<1>>
    /\ steps.running = {2}

-----------------------------------------------------------------------------
(* SpecStepsFair: SpecSteps where the code runs on when it can, every      *)
(* model request returns or fails and every tool call returns.             *)

SpecStepsFair ==
    /\ SpecSteps
    /\ WF_vars(StepChat \/ StepLoopEnd \/ StepExecute \/ StepContinue)
    /\ WF_vars(StepResponse \/ StepChatRaises)
    /\ WF_vars(StepResult)

\* every turn ends: process_command returns or raises
TurnEnds == (steps.phase = "loop") ~> (steps.phase \in {"awaiting", "crashed"})

\* C33: every user turn terminates with the orchestrator back at awaiting
\* user input: once process_command has entered its loop, it eventually
\* returns and the session awaits the next command, whatever the model
\* answers, when every model request returns or fails and every tool returns.
C33_TurnReturnsToPrompt == (steps.phase = "loop") ~> (steps.phase = "awaiting")

-----------------------------------------------------------------------------
(* SpecWindow: one whole turn in which the model keeps calling tools, two  *)
(* calls and a note at a time or one call at a time.                       *)

WindowResponses ==
    { ChatError,
      Response(<<>>, <<>>, FALSE),
      Response(<<>>, <<>>, TRUE),
      Response(Prose, <<>>, TRUE),
      Response(<<>>, <<WriteCall>>, TRUE),
      Response(Prose, <<WriteCall, WriteCall>>, TRUE) }

\* the history when the command of the turn has been appended
WindowHistories ==
    { <<UserMessage(<<Word("task")>>)>>,
      <<UserMessage(<<Word("old")>>), AssistantMessage(Prose),
        UserMessage(<<Word("task")>>)>> }

InitWindow ==
    /\ fs = FsEmpty
    /\ lastOp = NoOp
    /\ opCount = 0
    /\ session = "turn"
    /\ history \in WindowHistories
    /\ iteration = 0 /\ turn = 1 /\ requests = 0
    /\ lastResp = NoResponse /\ dispatched = <<>>
    /\ prevLen = Len(history) /\ prevFs = fs
    /\ lastRequest = NoRequest
    /\ roundTrip = NoRoundTrip
    /\ gitignore_spec = {}
    /\ listing = NoListing
    /\ StartIdle

NextWindow == \E resp \in WindowResponses : \E outcome \in OutcomesOf(resp) :
    Pass(resp, outcome)

SpecWindow == InitWindow /\ [][NextWindow]_vars

\* the place in the history of the command that started the turn
TurnStart ==
    CHOOSE u \in 1..Len(history) :
        /\ history[u].content.type = "command"
        /\ \A v \in (u + 1)..Len(history) : history[v].content.type # "command"

\* C34: every model request of a turn holds, in its window of messages, the
\* user message that started the turn, however many tool results and
\* assistant messages the turn had appended when the request was made.
C34_WindowHoldsUserMessage ==
    requests > 0 =>
        \E i \in 2..Len(lastRequest.messages) :
            /\ lastRequest.messages[i] = history[TurnStart]
            /\ Len(lastRequest.messages) - i = prevLen - TurnStart

-----------------------------------------------------------------------------
(* SpecMistral: the first pass of a turn in a session with a mistral model *)

InitMistral ==
    /\ fs \in {FsFile, FsTree}
    /\ lastOp = NoOp
    /\ opCount = 0
    /\ session = "turn"
    /\ history = <<UserMessage(<<Word("task")>>)>>
    /\ iteration = 0 /\ turn = 1 /\ requests = 0
    /\ lastResp = NoResponse /\ dispatched = <<>>
    /\ prevLen = 1 /\ prevFs = fs
    /\ lastRequest = NoRequest
    /\ roundTrip = NoRoundTrip
    /\ gitignore_spec = {}
    /\ listing = NoListing
    /\ client = [created |-> TRUE, closes |-> 0, model |-> <<"Mistral", ":", "x">>]
    /\ startup = [setup |-> "returned", exit_code |-> 0, first |-> "yes", second |-> "none",
                  loop |-> "prompting", prompts |-> 0,
                  lastCheck |-> [called |-> FALSE]]
    /\ pull = NoPull
    /\ agent = NoCommand
    /\ steps = NoSteps
    /\ cleaned = NoClean

SpecMistral == InitMistral /\ [][NextDetail]_vars

\* C35: only tools of the session's active tool set are executed: in a
\* session whose model is sent the catalog {write_file, run_command}, every
\* call handed to the executor names one of these two tools, whether the
\* model asked for it in structured form or as text.
C35_OnlyActiveToolsDispatched ==
    requests > 0 =>
        /\ lastRequest.tools = {"write_file", "run_command"}
        /\ \A i \in 1..Len(dispatched) : dispatched[i].call.name \in lastRequest.tools

-----------------------------------------------------------------------------
(* More claims checked under SpecFiles                                     *)

\* C36: read_file checks its errors in a fixed order: a path outside the
\* workspace fails with the containment error, even when nothing is there;
\* otherwise a missing path fails with not-found; otherwise a directory fails
\* with not-a-file; and a file that is there is read (no decode error for
\* bytes that some encoding of the list decodes).
C36_ReadErrorsInOrder ==
    (lastOp.layer = "file_ops" /\ lastOp.op = "read_file") =>
        lastOp.exc = IF lastOp.escapes THEN "PathEscape"
                     ELSE IF lastOp.kinds = {"missing"} THEN "NotFound"
                     ELSE IF lastOp.kinds = {"dir"} THEN "NotAFile"
                     ELSE "none"

\* C37: a write_file tool call that leaves out a parameter its definition
\* lists as required (file_path or content) is rejected with success = false
\* and changes no file.
C37_IncompleteWriteRejected ==
    (lastOp.layer = "tool" /\ lastOp.op = "write_file" /\ lastOp.omitted # {}) =>
        /\ ~lastOp.success
        /\ ~lastOp.changed

-----------------------------------------------------------------------------
(* SpecClean: ToolExecutor._clean_file_path applied to a path, and then to *)
(* what it returned                                                        *)

MaxPathLen == 4    \* characters of a path put together freely

CleanInputs ==
    SeqsUpTo({"~", "/", "\\", "a"}, MaxPathLen) \cup ToolPaths
    \cup { <<"/", "path", "/", "to", "/", "~", "/", "a">>,      \* /path/to/~/a
           <<"C:", "/", "path", "/", "to", "/", "a">> }         \* C:/path/to/a

InitClean ==
    /\ fs = FsEmpty
    /\ lastOp = NoOp
    /\ opCount = 0
    /\ session = "awaiting" /\ history = <<>> /\ iteration = 0 /\ turn = 0
    /\ requests = 0 /\ lastResp = NoResponse /\ dispatched = <<>>
    /\ prevLen = 0 /\ prevFs = fs
    /\ lastRequest = NoRequest
    /\ roundTrip = NoRoundTrip
    /\ gitignore_spec = {}
    /\ listing = NoListing
    /\ client = [created |-> TRUE, closes |-> 0, model |-> <<"d">>]
    /\ startup = [setup |-> "returned", exit_code |-> 0, first |-> "yes", second |-> "none",
                  loop |-> "prompting", prompts |-> 0,
                  lastCheck |-> [called |-> FALSE]]
    /\ pull = NoPull
    /\ agent = NoCommand
    /\ steps = NoSteps
    /\ cleaned \in {[NoClean EXCEPT !.file_path = p] : p \in CleanInputs}

CleanOnly == UNCHANGED <<fileVars, cliVars, roundTrip, gitignore_spec, listing, client,
                         startup, pull, agent, steps>>

\* file_path = self._clean_file_path(file_path)
CleanOnce ==
    /\ cleaned.stage = "none"
    /\ cleaned' = [cleaned EXCEPT !.stage = "once",
                                  !.once = clean_file_path(cleaned.file_path)]
    /\ CleanOnly

\* the path returned is handed to _clean_file_path again
CleanTwice ==
    /\ cleaned.stage = "once"
    /\ cleaned' = [cleaned EXCEPT !.stage = "twice",
                                  !.twice = clean_file_path(cleaned.once)]
    /\ CleanOnly

NextClean == CleanOnce \/ CleanTwice

SpecClean == InitClean /\ [][NextClean]_vars

\* C38: placeholder-path normalization is idempotent and yields a relative
\* path: cleaning a cleaned path returns it unchanged, and a cleaned path
\* never begins with "/" or a backslash.
C38_CleanIdempotent ==
    /\ cleaned.stage # "none" =>
           cleaned.once = <<>> \/ Head(cleaned.once) \notin {"/", "\\"}
    /\ cleaned.stage = "twice" =>
           /\ cleaned.twice = cleaned.once
           /\ cleaned.twice = <<>> \/ Head(cleaned.twice) \notin {"/", "\\"}

-----------------------------------------------------------------------------
(* More claims checked under SpecAgent                                     *)

\* `ls`, or `ls <name>` with a name of one word
IsPlainLs(words) ==
    LET s == Stripped(words)
    IN  \/ s = <<"ls">>
        \/ Len(s) = 3 /\ s[1] = "ls" /\ s[2] = " " /\ s[3] \notin {" ", "/", "."}

\* C39: the AgentCLI command `ls <dir>` with a plain directory name lists
\* exactly that directory, whatever the name (names that hold "here",
\* "project" or "workspace" inside them included), and `ls` alone lists the
\* workspace root: the listing filed in the history is the one of that
\* directory.
C39_LsListsNamedDirectory ==
    (agent.cli = "AgentCLI" /\ agent.returned # "none" /\ IsPlainLs(agent.command)) =>
        LET s == Stripped(agent.command)
            directory == IF Len(s) = 1 THEN <<".">> ELSE <<s[3]>>
        IN  /\ agent.returned = "True"
            /\ agent.listings = 1
            /\ history = Append(agent.before,
                                AssistantMessage(list_directory_for_command(fs, directory)))

-----------------------------------------------------------------------------
(* More claims checked under SpecStartup                                   *)

\* the model identifiers an entry of the tags listing carries
EntryNames(entry) ==
    IF entry.t = "str" THEN {entry.s}
    ELSE IF entry.t = "dict"
    THEN {Get(entry, key, JsonNull).s :
              key \in {k \in {"name", "model"} : Get(entry, k, JsonNull).t = "str"}}
    ELSE {}

\* C40: when check_model_availability returns True for the session's model
\* identifier, that very identifier, name and tag, is among the models the
\* server lists, so that setup skips the pull only for a variant that is
\* installed.
C40_AvailableMeansListed ==
    (startup.lastCheck.called /\ startup.lastCheck.val) =>
        \E i \in 1..Len(TagsListing(startup.lastCheck.server)) :
            client.model \in EntryNames(TagsListing(startup.lastCheck.server)[i])

====
